---- MODULE Spec2Model ----
(***************************************************************************)
(* The mutation engine of DNS-FUZZER: DNSMutator (core/mutator.py) over    *)
(* DNSQuery objects (core/query.py) with strategies from strategies/*.py.  *)
(*                                                                         *)
(* Python objects are modelled with their identity: DNSQuery objects live  *)
(* in the heap `msgs`, record dicts in the heap `recs`, and a section list *)
(* of a DNSQuery is a sequence of addresses into `recs`.  A list belongs   *)
(* to exactly one DNSQuery object (clone() and every strategy build new    *)
(* lists), so list identity is the identity of the owning object.          *)
(***************************************************************************)
EXTENDS Integers, Sequences, FiniteSets, TLC

VARIABLES
    strategies,   \* DNSMutator.strategies: dict name -> strategy, in insertion order
    rng,          \* DNSMutator.rng: state of the seeded generator
    history,      \* DNSMutator._history: list of mutation records
    pc,           \* "idle", or "returned" while the caller holds the result of a call
    call,         \* the call in progress: operation and arguments
    ret,          \* what the call returned or raised, with the trace of its rounds
    msgs,         \* heap of DNSQuery objects of the call (address 1 is the input)
    recs,         \* heap of record dicts of the call
    before,       \* the caller's snapshot of the input's value taken before the call
    twin,         \* a second DNSMutator with the same registry: its rng, _history
                  \* and the result of its last call
    chain,        \* the callable create_strategy_chain returned: the strategies it holds
    view,         \* the list get_history returned, as the caller holds it
    outs,         \* a returned value that is not one message: the list of mutate_batch,
                  \* of list_strategies, or what get_strategy found
    config,       \* the strategy descriptors of the configuration given at startup
    analyze       \* the analyze service: its CompareEngine, lock and handler threads

\* what the caller and the application hold besides the mutator
client == <<chain, view, outs, config, analyze>>

vars == <<strategies, rng, history, pc, call, ret, msgs, recs, before, twin, client>>

-----------------------------------------------------------------------------
(* Bounds of the model *)

MaxStrategies == 2      \* registry size
MaxCount == 2           \* num_mutations of a call
MaxHistory == 1         \* records kept before the caller clears the history

Weights == {0, 1, 2}    \* weights a strategy is registered with
Seeds == {0, 5}         \* seeds the mutator is constructed with
Counts == 0..MaxCount

-----------------------------------------------------------------------------
(* random.Random: a full-period linear congruential generator stands for   *)
(* the Mersenne twister.  random() is u/RngMod for the state u reached by  *)
(* one step; randrange/choice scale it as floor(random() * n).             *)

RngMod == 8

NextRng(s) == (5 * s + 3) % RngMod

\* rng._randbelow(n) read off the state r reached by the step
Below(r, n) == (r * n) \div RngMod

\* rng.randint(a, b) read off the state r
RandInt(r, a, b) == a + Below(r, b - a + 1)

\* rng.choice(seq) read off the state r
Choice(r, seq) == seq[1 + Below(r, Len(seq))]

BoolChoices == <<TRUE, FALSE>>

-----------------------------------------------------------------------------
(* Program constants *)

\* constants.DEFAULT_RECORD_TYPE, its first entries
DEFAULT_RECORD_TYPE == <<"A", "AAAA", "CNAME">>

\* ZeroQueryIdStrategy.special_ids
special_ids == <<0, 1, 65535, 32768, 16384>>

\* strategy_name=None of DNSMutator.mutate
None == "None"

\* Python truthiness of the strategy_name argument
Truthy(n) == n \notin {None, ""}

NoSuchStrategyError == "NoSuchStrategyError"
ValueError == "ValueError"

-----------------------------------------------------------------------------
(* DNSQuery and its records *)

\* a record dict as the builder's with_answer/with_authority/with_additional makes it
Record(name, type, rdata) ==
    [name |-> name, type |-> type, class |-> "IN", ttl |-> 300, rdata |-> rdata]

\* DNSQuery(...) with the dataclass defaults; sections hold record addresses
DNSQuery(id, resp, an, au, ad) ==
    [query_id |-> id, is_response |-> resp, authoritative |-> FALSE,
     truncated |-> FALSE, recursion_available |-> FALSE,
     qname |-> "example.com", qtype |-> "A", qclass |-> "IN",
     answers |-> an, authorities |-> au, additional |-> ad,
     edns_options |-> <<>>]

\* DNSQuery.clone: a new object; each list is copied, the dicts in it are not
clone(ms, a) == Append(ms, ms[a])

\* The value a caller sees when it reads object a: records by content
Deref(rs, addrs) == [i \in 1..Len(addrs) |-> rs[addrs[i]]]

Value(ms, rs, a) ==
    [ms[a] EXCEPT !.answers = Deref(rs, @),
                  !.authorities = Deref(rs, @),
                  !.additional = Deref(rs, @)]

\* record dicts reachable from object a
RecordsOf(ms, a) ==
    {ms[a].answers[i] : i \in 1..Len(ms[a].answers)}
    \cup {ms[a].authorities[i] : i \in 1..Len(ms[a].authorities)}
    \cup {ms[a].additional[i] : i \in 1..Len(ms[a].additional)}

HasRecords(q) == q.answers # <<>> \/ q.authorities # <<>> \/ q.additional # <<>>

\* The messages a caller passes in: heaps with the input at address 1
InputHeaps ==
    { [msgs |-> <<DNSQuery(12345, FALSE, <<>>, <<>>, <<>>)>>, recs |-> <<>>],
      [msgs |-> <<DNSQuery(12345, TRUE, <<1>>, <<>>, <<>>)>>,
       recs |-> <<Record("example.com", "A", "127.0.0.1")>>],
      [msgs |-> <<DNSQuery(12345, FALSE, <<>>, <<>>, <<1>>)>>,
       recs |-> <<Record("ns.example.com", "A", "10.0.0.1")>>],
      [msgs |-> <<DNSQuery(12345, TRUE, <<1>>, <<2>>, <<>>)>>,
       recs |-> <<Record("example.com", "A", "127.0.0.1"),
                  Record("example.com", "NS", "ns.example.com")>>] }

-----------------------------------------------------------------------------
(* Strategies.  The machine state a strategy runs on is                    *)
(*   [msgs, recs, rng]; mutate returns it with the address `out` of the    *)
(* object it returns.                                                      *)

\* names random_domain_name can produce (the generated text itself is abstracted)
GenNames == <<"a.com.", "b.example.">>

\* MutationStrategy.can_mutate and its overrides
RandomQueryName_can_mutate(q) == ~q.is_response
QueryAsResponse_can_mutate(q) == ~q.is_response
RandomRecordType_can_mutate(q) == HasRecords(q)
ZeroQueryId_can_mutate(q) == TRUE
LogicalRecord_can_mutate(q) == TRUE

\* RandomQueryNameStrategy.mutate
RandomQueryName_mutate(m, a) ==
    LET ms == clone(m.msgs, a)
        out == Len(ms)
        r1 == NextRng(m.rng)                      \* labels = rng.randint(1, 5)
        r2 == NextRng(r1)                         \* if rng.choice([True, False])
        r3 == IF Choice(r2, BoolChoices) THEN r2 ELSE NextRng(r2)   \* elif rng.choice(...)
        r4 == NextRng(r3)                         \* random_domain_name(...)
    IN [msgs |-> [ms EXCEPT ![out].qname = Choice(r4, GenNames)],
        recs |-> m.recs, rng |-> r4, out |-> out]

\* ZeroQueryIdStrategy.mutate
ZeroQueryId_mutate(m, a) ==
    LET ms == clone(m.msgs, a)
        out == Len(ms)
        r1 == NextRng(m.rng)
    IN [msgs |-> [ms EXCEPT ![out].query_id = Choice(r1, special_ids)],
        recs |-> m.recs, rng |-> r1, out |-> out]

\* QueryAsResponseStrategy._generate_record: a new dict built from the input query
generate_record(q, r) ==
    [name |-> q.qname, type |-> q.qtype, class |-> q.qclass,
     ttl |-> RandInt(r, 0, 86400), rdata |-> "generated"]

\* while rng.randint(0, 5) != 0: mutated.answers.append(self._generate_record(query, rng))
RECURSIVE QueryAsResponse_loop(_, _, _, _)
QueryAsResponse_loop(q, rs, answers, r) ==
    LET r1 == NextRng(r)                          \* rng.randint(0, 5)
        r2 == NextRng(r1)                         \* ttl
        r3 == NextRng(r2)                         \* generate_random_record(...)
    IN IF RandInt(r1, 0, 5) = 0
       THEN [recs |-> rs, answers |-> answers, rng |-> r1]
       ELSE QueryAsResponse_loop(q, Append(rs, generate_record(q, r2)),
                                 Append(answers, Len(rs) + 1), r3)

\* the result of QueryAsResponseStrategy.mutate once the answers are built
QueryAsResponse_result(ms, out, flagged, lp) ==
    [msgs |-> [ms EXCEPT ![out] = [flagged EXCEPT !.answers = lp.answers]],
     recs |-> lp.recs, rng |-> lp.rng, out |-> out]

\* mutated.is_response = True and the two flags drawn at r1, r2
QueryAsResponse_flags(q, r1, r2) ==
    [q EXCEPT !.is_response = TRUE,
              !.authoritative = Choice(r1, BoolChoices),
              !.recursion_available = Choice(r2, BoolChoices)]

\* the body of QueryAsResponseStrategy.mutate after the clone; r2 is the state
\* after the two flag draws
QueryAsResponse_body(m, a, ms, flagged, r2) ==
    LET r3 == NextRng(r2)                         \* if rng.choice([True, False])
        r4 == NextRng(r3)                         \* ttl of the first record
        r5 == NextRng(r4)                         \* its rdata
    IN IF Choice(r3, BoolChoices)
       THEN QueryAsResponse_result(ms, Len(ms), flagged,
                QueryAsResponse_loop(m.msgs[a],
                                     Append(m.recs, generate_record(m.msgs[a], r4)),
                                     <<Len(m.recs) + 1>>, r5))
       ELSE [msgs |-> [ms EXCEPT ![Len(ms)] = flagged],
             recs |-> m.recs, rng |-> r3, out |-> Len(ms)]

\* QueryAsResponseStrategy.mutate
QueryAsResponse_mutate(m, a) ==
    QueryAsResponse_body(m, a, clone(m.msgs, a),
                         QueryAsResponse_flags(m.msgs[a], NextRng(m.rng),
                                               NextRng(NextRng(m.rng))),
                         NextRng(NextRng(m.rng)))

\* for record in section: if rng.choice([True, False]): record['type'] = rng.choice(record_types)
RECURSIVE RandomRecordType_records(_, _, _)
RandomRecordType_records(rs, addrs, r) ==
    IF addrs = <<>> THEN [recs |-> rs, rng |-> r]
    ELSE LET r1 == NextRng(r)
             r2 == NextRng(r1)
         IN IF Choice(r1, BoolChoices)
            THEN RandomRecordType_records(
                     [rs EXCEPT ![Head(addrs)].type = Choice(r2, DEFAULT_RECORD_TYPE)],
                     Tail(addrs), r2)
            ELSE RandomRecordType_records(rs, Tail(addrs), r1)

RandomRecordType_result(ms, done) ==
    [msgs |-> ms, recs |-> done.recs, rng |-> done.rng, out |-> Len(ms)]

\* RandomRecordTypeStrategy.mutate: the three sections of the clone, in order
RandomRecordType_mutate(m, a) ==
    RandomRecordType_result(
        clone(m.msgs, a),
        RandomRecordType_records(
            m.recs,
            m.msgs[a].answers \o m.msgs[a].authorities \o m.msgs[a].additional,
            m.rng))

\* LogicalRecordStrategy.mutate: query.additional_records does not exist on a
\* DNSQuery, the AttributeError of every append is swallowed by `except Exception`,
\* and the query object it was given is returned
LogicalRecord_mutate(m, a) ==
    LET r1 == NextRng(m.rng)                      \* rng.choice(list(ScenarioType))
        r2 == NextRng(r1)                         \* generate_logical_records(...)
    IN [msgs |-> m.msgs, recs |-> m.recs, rng |-> r2, out |-> a]

\* BaseMutationStrategy.generate_random_record(rng): the record and the generator
\* after it; the draws behind the type (r1), the name (r2), the ttl (r3) and the
\* rdata (r4) are counted as one step each
generate_random_record(r) ==
    LET r1 == NextRng(r)
        r2 == NextRng(r1)
        r3 == NextRng(r2)
        r4 == NextRng(r3)
    IN [rec |-> [name |-> Choice(r2, GenNames), type |-> Choice(r1, DEFAULT_RECORD_TYPE),
                 class |-> "IN", ttl |-> RandInt(r3, 0, 86400), rdata |-> "random"],
        rng |-> r4]

\* for _ in range(n): section.append(self.generate_random_record(rng)):
\* the heap, the section and the generator after the loop
RECURSIVE append_random_records(_, _, _, _)
append_random_step(g, n, rs, section) ==
    append_random_records(n - 1, Append(rs, g.rec), Append(section, Len(rs) + 1), g.rng)
append_random_records(n, rs, section, r) ==
    IF n = 0 THEN [recs |-> rs, section |-> section, rng |-> r]
    ELSE append_random_step(generate_random_record(r), n, rs, section)

\* constants.DEFAULT_TRUNCATED_CONTEXT
DEFAULT_TRUNCATED_CONTEXT == <<"query_truncated", "response_truncated", "empty_truncated">>

TruncatedFlag_can_mutate(q) == TRUE

\* LongQueryNameStrategy.can_mutate: return not query.is_response
LongQueryName_can_mutate(q) == ~q.is_response

\* constants.DEFAULT_LONG_QUERY_NAME_STRATEGY
DEFAULT_LONG_QUERY_NAME_STRATEGY == <<"single_long_label", "many_labels", "max_length">>

\* the response_truncated branch once the records are appended
TruncatedFlag_response(ms, out, authoritative, lp) ==
    [msgs |-> [ms EXCEPT ![out].is_response = TRUE,
                         ![out].authoritative = authoritative,
                         ![out].answers = lp.section],
     recs |-> lp.recs, rng |-> lp.rng, out |-> out]

\* a response_truncated branch that sets the flags and adds no record
TruncatedFlag_branch_bare(m, ms, out, context, r1) ==
    IF context = "query_truncated"
    THEN [msgs |-> [ms EXCEPT ![out].is_response = FALSE],
          recs |-> m.recs, rng |-> r1, out |-> out]
    ELSE IF context = "response_truncated"
    THEN [msgs |-> [ms EXCEPT ![out].is_response = TRUE,
                              ![out].authoritative = Choice(NextRng(r1), BoolChoices)],
          recs |-> m.recs, rng |-> NextRng(r1), out |-> out]
    ELSE [msgs |-> [ms EXCEPT ![out].is_response = TRUE, ![out].answers = <<>>,
                              ![out].authorities = <<>>, ![out].additional = <<>>],
          recs |-> m.recs, rng |-> r1, out |-> out]

\* the branch of TruncatedFlagStrategy.mutate taken for the context drawn at r1;
\* ms holds the clone, with truncated set, at address out
TruncatedFlag_branch(m, ms, out, context, r1) ==
    IF context = "query_truncated"
    THEN [msgs |-> [ms EXCEPT ![out].is_response = FALSE],
          recs |-> m.recs, rng |-> r1, out |-> out]
    ELSE IF context = "response_truncated"
    THEN TruncatedFlag_response(
             ms, out, Choice(NextRng(r1), BoolChoices),
             append_random_records(RandInt(NextRng(NextRng(r1)), 1, 3), m.recs,
                                   ms[out].answers, NextRng(NextRng(r1))))
    ELSE [msgs |-> [ms EXCEPT ![out].is_response = TRUE, ![out].answers = <<>>,
                              ![out].authorities = <<>>, ![out].additional = <<>>],
          recs |-> m.recs, rng |-> r1, out |-> out]

\* TruncatedFlagStrategy.mutate
TruncatedFlag_mutate(m, a) ==
    TruncatedFlag_branch(m, [clone(m.msgs, a) EXCEPT ![Len(m.msgs) + 1].truncated = TRUE],
                         Len(m.msgs) + 1,
                         Choice(NextRng(m.rng), DEFAULT_TRUNCATED_CONTEXT), NextRng(m.rng))

\* RecordCompressionStrategy.can_mutate and WildcardRecordStrategy.can_mutate:
\* query.is_response or bool(query.answers or query.authorities or query.additional)
RecordCompression_can_mutate(q) ==
    q.is_response \/ q.answers # <<>> \/ q.authorities # <<>> \/ q.additional # <<>>
WildcardRecord_can_mutate(q) ==
    q.is_response \/ q.answers # <<>> \/ q.authorities # <<>> \/ q.additional # <<>>

\* one record of RecordCompressionStrategy.mutate and the generator after it:
\* the name is the question's or a subdomain of it (r1), then the type (r2), the
\* rdata (r3) and the ttl (r4)
compression_record(base_name, r) ==
    LET r1 == NextRng(r)
        r2 == NextRng(r1)
        r3 == NextRng(r2)
        r4 == NextRng(r3)
    IN [rec |-> [name |-> IF Choice(r1, BoolChoices) THEN base_name
                          ELSE "sub." \o base_name,
                 type |-> Choice(r2, <<"A", "AAAA", "CNAME", "NS">>),
                 class |-> "IN", ttl |-> RandInt(r4, 0, 86400), rdata |-> "random"],
        rng |-> r4]

\* the wildcard_patterns of WildcardRecordStrategy.mutate
wildcard_patterns(qname) ==
    <<"*.example.com", "*." \o qname, "*.*.example.com", "*", "test.*.example.com">>

\* one record of WildcardRecordStrategy.mutate and the generator after it: the
\* name (r1), the type (r2), the ttl (r3) and the rdata (r4)
wildcard_record(qname, r) ==
    LET r1 == NextRng(r)
        r2 == NextRng(r1)
        r3 == NextRng(r2)
        r4 == NextRng(r3)
    IN [rec |-> [name |-> Choice(r1, wildcard_patterns(qname)),
                 type |-> Choice(r2, <<"A", "AAAA", "CNAME", "TXT">>),
                 class |-> "IN", ttl |-> RandInt(r3, 0, 86400), rdata |-> "random"],
        rng |-> r4]

\* the loop that builds n records with gen in {"compression", "wildcard"}, and
\* mutated.answers.extend(...) of them: the heap, the section and the generator
RECURSIVE extend_records(_, _, _, _, _, _)
extend_step(g, gen, n, qname, rs, section) ==
    extend_records(gen, n - 1, qname, Append(rs, g.rec), Append(section, Len(rs) + 1),
                   g.rng)
extend_records(gen, n, qname, rs, section, r) ==
    IF n = 0 THEN [recs |-> rs, section |-> section, rng |-> r]
    ELSE extend_step(IF gen = "compression" THEN compression_record(qname, r)
                     ELSE wildcard_record(qname, r), gen, n, qname, rs, section)

\* the clone at address out made a response with the extended answers
extended_response(ms, out, lp) ==
    [msgs |-> [ms EXCEPT ![out].is_response = TRUE, ![out].answers = lp.section],
     recs |-> lp.recs, rng |-> lp.rng, out |-> out]

\* RecordCompressionStrategy.mutate: for i in range(rng.randint(3, 6))
RecordCompression_mutate(m, a) ==
    extended_response(clone(m.msgs, a), Len(m.msgs) + 1,
                      extend_records("compression", RandInt(NextRng(m.rng), 3, 6),
                                     m.msgs[a].qname, m.recs, m.msgs[a].answers,
                                     NextRng(m.rng)))

\* WildcardRecordStrategy.mutate: for _ in range(rng.randint(1, 3))
WildcardRecord_mutate(m, a) ==
    extended_response(clone(m.msgs, a), Len(m.msgs) + 1,
                      extend_records("wildcard", RandInt(NextRng(m.rng), 1, 3),
                                     m.msgs[a].qname, m.recs, m.msgs[a].answers,
                                     NextRng(m.rng)))

\* constants.DEFAULT_NUMERIC_TYPE
DEFAULT_NUMERIC_TYPE == <<"random", "boundary", "increment", "decrement", "bit_flip">>

Min(a, b) == IF a <= b THEN a ELSE b
Max(a, b) == IF a >= b THEN a ELSE b

RECURSIVE Pow2(_)
Pow2(n) == IF n = 0 THEN 1 ELSE 2 * Pow2(n - 1)

\* value ^ (1 << bit_pos) for a value that is not negative
FlipBit(value, bit_pos) ==
    IF (value \div Pow2(bit_pos)) % 2 = 1 THEN value - Pow2(bit_pos)
    ELSE value + Pow2(bit_pos)

\* [b for b in [min_val, max_val, min_val + 1, max_val - 1] if min_val <= b <= max_val]
boundaries(min_val, max_val) ==
    SelectSeq(<<min_val, max_val, min_val + 1, max_val - 1>>,
              LAMBDA b : min_val <= b /\ b <= max_val)

\* an increment that is not capped at max_val
mutate_numeric_uncapped(mutation_type, d, value, min_val, max_val) ==
    CASE mutation_type = "random" -> d
      [] mutation_type = "boundary" -> boundaries(min_val, max_val)[d]
      [] mutation_type = "increment" -> value + d
      [] mutation_type = "decrement" -> Max(value - d, min_val)
      [] mutation_type = "bit_flip" -> FlipBit(value, d)

\* mutate_numeric_field once mutation_type is chosen; d is what the second call
\* on the generator returned: the randint result, or the place of the boundary
\* rng.choice picked
mutate_numeric(mutation_type, d, value, min_val, max_val) ==
    CASE mutation_type = "random" -> d
      [] mutation_type = "boundary" -> boundaries(min_val, max_val)[d]
      [] mutation_type = "increment" -> Min(value + d, max_val)
      [] mutation_type = "decrement" -> Max(value - d, min_val)
      [] mutation_type = "bit_flip" -> FlipBit(value, d)

\* the second call on the generator, read off the state r
numeric_draw(mutation_type, r, min_val, max_val) ==
    CASE mutation_type = "random" -> RandInt(r, min_val, max_val)
      [] mutation_type = "boundary" -> 1 + Below(r, Len(boundaries(min_val, max_val)))
      [] mutation_type \in {"increment", "decrement"} -> RandInt(r, 1, 100)
      [] mutation_type = "bit_flip" -> RandInt(r, 0, 15)

\* BaseMutationStrategy.mutate_numeric_field(rng, value, min_val, max_val), the
\* generator stepped to r1 for rng.choice(mutation_types) and to r2 for the draw
mutate_numeric_field(r1, r2, value, min_val, max_val) ==
    mutate_numeric(Choice(r1, DEFAULT_NUMERIC_TYPE),
                   numeric_draw(Choice(r1, DEFAULT_NUMERIC_TYPE), r2, min_val, max_val),
                   value, min_val, max_val)

RandomQueryId_can_mutate(q) == TRUE

\* RandomQueryIdStrategy.mutate
RandomQueryId_mutate(m, a) ==
    LET ms == clone(m.msgs, a)
        out == Len(ms)
        r1 == NextRng(m.rng)
        r2 == NextRng(r1)
    IN [msgs |-> [ms EXCEPT ![out].query_id =
                     mutate_numeric_field(r1, r2, m.msgs[a].query_id, 0, 65535)],
        recs |-> m.recs, rng |-> r2, out |-> out]

\* The strategy classes, each with the name its constructor sets
Classes == {"RandomQueryNameStrategy", "QueryAsResponseStrategy",
            "RandomRecordTypeStrategy", "ZeroQueryIdStrategy", "LogicalRecordStrategy"}

NameOf(cls) ==
    CASE cls = "RandomQueryNameStrategy" -> "random_query_name"
      [] cls = "QueryAsResponseStrategy" -> "query_as_response"
      [] cls = "RandomRecordTypeStrategy" -> "random_record_type"
      [] cls = "ZeroQueryIdStrategy" -> "zero_query_id"
      [] cls = "LogicalRecordStrategy" -> "logical_record"
      [] cls = "RandomQueryIdStrategy" -> "random_query_id"
      [] cls = "TruncatedFlagStrategy" -> "truncated_flag"
      [] cls = "LongQueryNameStrategy" -> "long_query_name"
      [] cls = "RecordCompressionStrategy" -> "record_compression"
      [] cls = "WildcardRecordStrategy" -> "wildcard_records"

\* strategy.can_mutate(query), dispatched on the class
can_mutate(s, q) ==
    CASE s.cls = "RandomQueryNameStrategy" -> RandomQueryName_can_mutate(q)
      [] s.cls = "QueryAsResponseStrategy" -> QueryAsResponse_can_mutate(q)
      [] s.cls = "RandomRecordTypeStrategy" -> RandomRecordType_can_mutate(q)
      [] s.cls = "ZeroQueryIdStrategy" -> ZeroQueryId_can_mutate(q)
      [] s.cls = "LogicalRecordStrategy" -> LogicalRecord_can_mutate(q)
      [] s.cls = "RandomQueryIdStrategy" -> RandomQueryId_can_mutate(q)
      [] s.cls = "TruncatedFlagStrategy" -> TruncatedFlag_can_mutate(q)
      [] s.cls = "LongQueryNameStrategy" -> LongQueryName_can_mutate(q)
      [] s.cls = "RecordCompressionStrategy" -> RecordCompression_can_mutate(q)
      [] s.cls = "WildcardRecordStrategy" -> WildcardRecord_can_mutate(q)

\* strategy.mutate(query, rng), dispatched on the class
mutate(s, m, a) ==
    CASE s.cls = "RandomQueryNameStrategy" -> RandomQueryName_mutate(m, a)
      [] s.cls = "QueryAsResponseStrategy" -> QueryAsResponse_mutate(m, a)
      [] s.cls = "RandomRecordTypeStrategy" -> RandomRecordType_mutate(m, a)
      [] s.cls = "ZeroQueryIdStrategy" -> ZeroQueryId_mutate(m, a)
      [] s.cls = "LogicalRecordStrategy" -> LogicalRecord_mutate(m, a)
      [] s.cls = "RandomQueryIdStrategy" -> RandomQueryId_mutate(m, a)
      [] s.cls = "TruncatedFlagStrategy" -> TruncatedFlag_mutate(m, a)
      [] s.cls = "RecordCompressionStrategy" -> RecordCompression_mutate(m, a)
      [] s.cls = "WildcardRecordStrategy" -> WildcardRecord_mutate(m, a)

-----------------------------------------------------------------------------
(* random.Random.choices(population, weights=weights)[0], as _sample uses it *)

\* itertools.accumulate(weights)
RECURSIVE accumulate(_)
accumulate(ws) ==
    IF ws = <<>> THEN <<>>
    ELSE LET front == accumulate(SubSeq(ws, 1, Len(ws) - 1))
         IN Append(front, (IF front = <<>> THEN 0 ELSE front[Len(front)]) + ws[Len(ws)])

\* bisect.bisect_left in the place of bisect_right: the first entry that is not
\* below the draw
RECURSIVE bisect_left(_, _, _, _)
bisect_left(a, d, lo, hi) ==
    IF lo < hi
    THEN LET mid == (lo + hi) \div 2
         IN IF d <= a[mid + 1] THEN bisect_left(a, d, lo, mid)
            ELSE bisect_left(a, d, mid + 1, hi)
    ELSE lo

\* bisect.bisect_right(a, x, lo, hi) with 0-based lo, hi; x is compared through
\* its floor d, which decides x < a[mid] for the integer entries of a
RECURSIVE bisect(_, _, _, _)
bisect(a, d, lo, hi) ==
    IF lo < hi
    THEN LET mid == (lo + hi) \div 2
         IN IF d < a[mid + 1] THEN bisect(a, d, lo, mid) ELSE bisect(a, d, mid + 1, hi)
    ELSE lo

\* the draw random() * total, by its floor, read off the state r
Draw(r, total) == (r * total) \div RngMod

\* population[bisect(cum_weights, random() * total, 0, hi)] with hi = n - 1:
\* the 1-based position selected for a draw whose floor is d
pick_at(cum_weights, d, n) == 1 + bisect(cum_weights, d, 0, n - 1)

\* the selection of choices once cum_weights is built and the generator stepped to r
choices_pick(n, cum_weights, total, r0, r) ==
    IF total <= 0
    THEN [kind |-> "raise", exc |-> ValueError,
          text |-> "Total of weights must be greater than zero",
          rng |-> r0, d |-> 0, pick |-> 0]
    ELSE [kind |-> "pick", exc |-> "", text |-> "", rng |-> r,
          d |-> Draw(r, total),
          pick |-> pick_at(cum_weights, Draw(r, total), n)]

choices_total(n, cum_weights, r0) ==
    choices_pick(n, cum_weights, cum_weights[Len(cum_weights)], r0, NextRng(r0))

\* choices: raises ValueError when the total is not positive, before drawing
choices(population, weights, r0) ==
    choices_total(Len(population), accumulate(weights), r0)

-----------------------------------------------------------------------------
(* DNSMutator *)

\* [strategy for strategy in self.strategies.values() if strategy.can_mutate(query)]
applicable_strategies(strats, q) == SelectSeq(strats, LAMBDA s : can_mutate(s, q))

Names(strats) == [i \in 1..Len(strats) |-> strats[i].name]

WeightsOf(strats) == [i \in 1..Len(strats) |-> strats[i].weight]

\* what _sample returns for the outcome c of choices over the applicable list
sample_result(app, c, r0) ==
    IF c.kind = "raise"
    THEN [kind |-> "raise", strategy |-> 0, exc |-> c.exc, text |-> c.text,
          rng |-> c.rng, applicable |-> app, d |-> 0]
    ELSE [kind |-> "pick", strategy |-> app[c.pick], exc |-> "", text |-> "",
          rng |-> c.rng, applicable |-> app, d |-> c.d]

sample_from(app, r0) ==
    IF app = <<>>
    THEN [kind |-> "none", strategy |-> 0, exc |-> "", text |-> "", rng |-> r0,
          applicable |-> <<>>, d |-> 0]
    ELSE sample_result(app, choices(app, WeightsOf(app), r0), r0)

\* DNSMutator._sample: None, a strategy, or the exception choices raises
sample(strats, q, r0) == sample_from(applicable_strategies(strats, q), r0)

\* self.strategies.get(name): the position of the entry, 0 for None
get(strats, name) ==
    IF \E i \in 1..Len(strats) : strats[i].name = name
    THEN CHOOSE i \in 1..Len(strats) : strats[i].name = name
    ELSE 0

\* mutated_query = strategy.mutate(mutated_query, self.rng);
\* applied_strategies.append(strategy.name)
\* (res is what strategy.mutate returned; the trace notes whether can_mutate held)
applied(strategy, acc, res) ==
    [acc EXCEPT !.m = [msgs |-> res.msgs, recs |-> res.recs, rng |-> res.rng],
                !.cur = res.out,
                !.applied = Append(@, strategy.name),
                !.invoked = Append(@, [name |-> strategy.name,
                                       can |-> can_mutate(strategy, acc.m.msgs[acc.cur]),
                                       arg |-> acc.cur, out |-> res.out])]

apply_strategy(strategy, acc) == applied(strategy, acc, mutate(strategy, acc.m, acc.cur))

\* the round when strategy_name is given: i is the position self.strategies.get found
round_by_name(strats, i, acc) ==
    IF i = 0
    THEN [acc EXCEPT !.status = "raise", !.exc = NoSuchStrategyError,
                     !.text = "Strategy not found"]
    ELSE apply_strategy(strats[i], acc)

\* the trace entry of one _sample call
sample_entry(smp, cur) ==
    [kind |-> smp.kind, applicable |-> Names(smp.applicable),
     weights |-> WeightsOf(smp.applicable), d |-> smp.d,
     chosen |-> IF smp.kind = "pick" THEN smp.strategy.name ELSE None,
     on |-> cur]

\* a round that raises when _sample finds no applicable strategy
round_sampled_strict(smp, acc) ==
    IF smp.kind = "none"
    THEN [acc EXCEPT !.status = "raise", !.exc = ValueError,
                     !.text = "No applicable strategies found"]
    ELSE IF smp.kind = "raise"
    THEN [acc EXCEPT !.status = "raise", !.exc = smp.exc, !.text = smp.text]
    ELSE apply_strategy(smp.strategy, [acc EXCEPT !.m.rng = smp.rng])

\* the round when strategy_name is not given: smp is what _sample returned
round_sampled(smp, acc) ==
    IF smp.kind = "none"
    THEN [acc EXCEPT !.status = "break"]
    ELSE IF smp.kind = "raise"
    THEN [acc EXCEPT !.status = "raise", !.exc = smp.exc, !.text = smp.text]
    ELSE apply_strategy(smp.strategy, [acc EXCEPT !.m.rng = smp.rng])

round_traced(smp, acc) ==
    round_sampled(smp, [acc EXCEPT !.samples = Append(@, sample_entry(smp, acc.cur))])

\* One pass of the body of `for i in range(num_mutations)` in DNSMutator.mutate.
\* acc: the machine state m, the current object cur, the applied names, the
\* trace (invoked, samples) and status "run" | "break" | "raise".
mutate_round(strats, strategy_name, acc) ==
    IF Truthy(strategy_name)
    THEN round_by_name(strats, get(strats, strategy_name), acc)
    ELSE round_traced(sample(strats, acc.m.msgs[acc.cur], acc.m.rng), acc)

\* for i in range(num_mutations): ...
RECURSIVE mutate_loop(_, _, _, _)
mutate_loop(strats, strategy_name, n, acc) ==
    IF n <= 0 \/ acc.status # "run" THEN acc
    ELSE mutate_loop(strats, strategy_name, n - 1, mutate_round(strats, strategy_name, acc))

\* the record mutate appends to self._history
history_record(ms, query, mutated_query, applied_strategies) ==
    [original_id |-> ms[query].query_id,
     mutated_id |-> ms[mutated_query].query_id,
     strategies |-> applied_strategies,
     num_mutations |-> Len(applied_strategies)]

NoTrace == [applied |-> <<>>, invoked |-> <<>>, samples |-> <<>>]

Raised(exc, text, tr) ==
    [kind |-> "raise", exc |-> exc, text |-> text, value |-> 0, flag |-> FALSE,
     applied |-> tr.applied, invoked |-> tr.invoked, samples |-> tr.samples]

Returned(value, tr) ==
    [kind |-> "return", exc |-> "", text |-> "", value |-> value, flag |-> FALSE,
     applied |-> tr.applied, invoked |-> tr.invoked, samples |-> tr.samples]

\* a loop whose generator is re-seeded from the number of records in the history
mutate_start_reseeded(self, h, query) ==
    [m |-> [msgs |-> clone(h.msgs, query), recs |-> h.recs,
            rng |-> (self.rng + Len(self.history)) % RngMod],
     cur |-> Len(h.msgs) + 1, applied |-> <<>>, invoked |-> <<>>, samples |-> <<>>,
     status |-> "run", exc |-> "", text |-> ""]

\* the state of the loop before its first round: mutated_query = query.clone(),
\* applied_strategies = []
mutate_start(self, h, query) ==
    [m |-> [msgs |-> clone(h.msgs, query), recs |-> h.recs, rng |-> self.rng],
     cur |-> Len(h.msgs) + 1, applied |-> <<>>, invoked |-> <<>>, samples |-> <<>>,
     status |-> "run", exc |-> "", text |-> ""]

\* what mutate does once the loop has ended in `end`: an exception propagates,
\* otherwise the history record is appended and mutated_query returned
mutate_end(self, query, end) ==
    IF end.status = "raise"
    THEN [self |-> [self EXCEPT !.rng = end.m.rng],
          msgs |-> end.m.msgs, recs |-> end.m.recs,
          ret |-> Raised(end.exc, end.text, end)]
    ELSE [self |-> [self EXCEPT !.rng = end.m.rng,
                                !.history = Append(@, history_record(end.m.msgs, query,
                                                          end.cur, end.applied))],
          msgs |-> end.m.msgs, recs |-> end.m.recs,
          ret |-> Returned(end.cur, end)]

\* mutate without the test `if not self.strategies`
DNSMutator_mutate_unchecked(self, h, strategy_name, num_mutations) ==
    mutate_end(self, 1,
               mutate_loop(self.strategies, strategy_name, num_mutations,
                           mutate_start(self, h, 1)))

\* DNSMutator.mutate(query, strategy_name, num_mutations) on self = [strategies,
\* rng, history] with the input object at address 1 of the heap h
DNSMutator_mutate(self, h, strategy_name, num_mutations) ==
    IF self.strategies = <<>>
    THEN [self |-> self, msgs |-> h.msgs, recs |-> h.recs,
          ret |-> Raised(NoSuchStrategyError, "No mutation strategies registered",
                         NoTrace)]
    ELSE mutate_end(self, 1,
                    mutate_loop(self.strategies, strategy_name, num_mutations,
                                mutate_start(self, h, 1)))

\* a comprehension that hands every query the generator the batch started with
batch_step_unthreaded(acc, res) ==
    IF res.ret.kind = "raise"
    THEN [acc EXCEPT !.self = res.self, !.status = "raise", !.exc = res.ret.exc,
                     !.text = res.ret.text]
    ELSE [acc EXCEPT !.self = [res.self EXCEPT !.rng = acc.self.rng],
                     !.outs = Append(@, [msgs |-> res.msgs, recs |-> res.recs,
                                         value |-> res.ret.value,
                                         applied |-> res.ret.applied])]

\* one pass of the comprehension of mutate_batch: res is what self.mutate returned
\* or raised for the next query of the list
batch_step(acc, res) ==
    IF res.ret.kind = "raise"
    THEN [acc EXCEPT !.self = res.self, !.status = "raise",
                     !.exc = res.ret.exc, !.text = res.ret.text]
    ELSE [acc EXCEPT !.self = res.self,
                     !.outs = Append(@, [msgs |-> res.msgs, recs |-> res.recs,
                                         value |-> res.ret.value,
                                         applied |-> res.ret.applied])]

\* [self.mutate(query, num_mutations=mutations_per_query) for query in queries];
\* hs holds each query of the list in a heap of its own
RECURSIVE batch_loop(_, _, _)
batch_loop(acc, hs, mutations_per_query) ==
    IF hs = <<>> \/ acc.status # "run" THEN acc
    ELSE batch_loop(batch_step(acc, DNSMutator_mutate(acc.self, Head(hs), None,
                                                      mutations_per_query)),
                    Tail(hs), mutations_per_query)

\* DNSMutator.mutate_batch(queries, mutations_per_query)
mutate_batch(self, hs, mutations_per_query) ==
    batch_loop([self |-> self, outs |-> <<>>, status |-> "run", exc |-> "", text |-> ""],
               hs, mutations_per_query)

\* a resolve loop that leaves out the names it does not find
RECURSIVE chain_resolve_skipping(_, _, _)
chain_resolve_skipping(strats, strategy_names, found) ==
    IF strategy_names = <<>>
    THEN [kind |-> "return", exc |-> "", text |-> "", strategies |-> found]
    ELSE IF get(strats, Head(strategy_names)) = 0
    THEN chain_resolve_skipping(strats, Tail(strategy_names), found)
    ELSE chain_resolve_skipping(strats, Tail(strategy_names),
                                Append(found, strats[get(strats, Head(strategy_names))]))

\* the loop of create_strategy_chain that looks every name up
RECURSIVE chain_resolve(_, _, _)
chain_resolve(strats, strategy_names, found) ==
    IF strategy_names = <<>>
    THEN [kind |-> "return", exc |-> "", text |-> "", strategies |-> found]
    ELSE IF get(strats, Head(strategy_names)) = 0
    THEN [kind |-> "raise", exc |-> NoSuchStrategyError, text |-> "Strategy not found",
          strategies |-> <<>>]
    ELSE chain_resolve(strats, Tail(strategy_names),
                       Append(found, strats[get(strats, Head(strategy_names))]))

\* DNSMutator.create_strategy_chain(strategy_names): the strategies apply_chain
\* closes over, or the exception
create_strategy_chain(strats, strategy_names) == chain_resolve(strats, strategy_names, <<>>)

\* a chain that applies every strategy without asking can_mutate
chain_step_unguarded(strategy, acc) == apply_strategy(strategy, acc)

\* if strategy.can_mutate(mutated): mutated = strategy.mutate(mutated, self.rng)
chain_step(strategy, acc) ==
    IF can_mutate(strategy, acc.m.msgs[acc.cur]) THEN apply_strategy(strategy, acc)
    ELSE acc

\* for strategy in strategies: ...
RECURSIVE chain_loop(_, _)
chain_loop(ss, acc) ==
    IF ss = <<>> THEN acc ELSE chain_loop(Tail(ss), chain_step(Head(ss), acc))

\* apply_chain(query) of the chain holding ss, run on the mutator self with the
\* input object at address 1 of the heap h: mutated = query.clone(), then the loop
apply_chain(ss, self, h) == chain_loop(ss, mutate_start(self, h, 1))

\* a registry that adds an entry on every registration
register_strategy_appending(strats, strategy) == Append(strats, strategy)

\* DNSMutator.register_strategy: self.strategies[strategy.name] = strategy
register_strategy(strats, strategy) ==
    IF get(strats, strategy.name) # 0
    THEN [strats EXCEPT ![get(strats, strategy.name)] = strategy]
    ELSE Append(strats, strategy)

\* DNSMutator.unregister_strategy: self.strategies.pop(name, None)
unregister_strategy(strats, name) == SelectSeq(strats, LAMBDA s : s.name # name)

\* DNSMutator.get_strategy: self.strategies.get(name); <<>> stands for None
get_strategy(strats, name) ==
    IF get(strats, name) = 0 THEN <<>> ELSE <<strats[get(strats, name)]>>

\* MutationStrategy.get_mutation_info (the description, fixed per class, left out)
get_mutation_info(strategy) ==
    [name |-> strategy.name, weight |-> strategy.weight, class |-> strategy.cls]

\* DNSMutator.list_strategies:
\* [strategy.get_mutation_info() for strategy in self.strategies.values()]
list_strategies(strats) == [i \in 1..Len(strats) |-> get_mutation_info(strats[i])]

-----------------------------------------------------------------------------
(* The state machine: a caller issues one call at a time on the mutator and *)
(* drops the result before the next call.                                   *)

NoCall == [op |-> "none", name |-> "", num |-> 0, weight |-> 0]
NoRet == [kind |-> "none", exc |-> "", text |-> "", value |-> 0, flag |-> FALSE,
          applied |-> <<>>, invoked |-> <<>>, samples |-> <<>>]
NoValue == <<>>

\* strategy_name arguments: None, "", and the name of every class, registered or not
StrategyNames == {None, ""} \cup {NameOf(c) : c \in Classes}

\* the caller holds no chain and no copy of the history
NoChain == [made |-> FALSE, strategies |-> <<>>]
NoView == [taken |-> FALSE, items |-> <<>>]

\* no configuration loaded, no client or server started
NoConfig == [loaded |-> FALSE, random_seed |-> 0, strategies |-> <<>>, started |-> FALSE]

\* no analyze service is running
NoAnalyze == [up |-> FALSE, window_size |-> 0, window |-> <<>>, lock |-> 0, log |-> <<>>,
              arrived |-> 0, threads |-> <<>>]

\* DNSMutator(seed): no strategies, a generator at the seed, an empty history
Constructed ==
    /\ strategies = <<>>
    /\ rng \in Seeds
    /\ history = <<>>
    /\ pc = "idle"
    /\ call = NoCall
    /\ ret = NoRet
    /\ msgs = <<>>
    /\ recs = <<>>
    /\ before = NoValue
    /\ chain = NoChain
    /\ view = NoView
    /\ outs = <<>>
    /\ config = NoConfig
    /\ analyze = NoAnalyze

\* no second mutator is in use
NoTwin == [rng |-> 0, history |-> <<>>, ret |-> NoRet]

Init == Constructed /\ twin = NoTwin

Register(cls, w) ==
    /\ pc = "idle"
    /\ get(strategies, NameOf(cls)) # 0 \/ Len(strategies) < MaxStrategies
    /\ strategies' = register_strategy(strategies,
                                       [name |-> NameOf(cls), weight |-> w, cls |-> cls])
    /\ call' = [op |-> "register_strategy", name |-> NameOf(cls), num |-> 0, weight |-> w]
    /\ ret' = Returned(0, NoTrace)
    /\ pc' = "returned"
    /\ UNCHANGED <<rng, history, msgs, recs, before, twin, client>>

Unregister(name) ==
    /\ pc = "idle"
    /\ strategies' = unregister_strategy(strategies, name)
    /\ call' = [op |-> "unregister_strategy", name |-> name, num |-> 0, weight |-> 0]
    /\ ret' = [Returned(0, NoTrace) EXCEPT !.flag = (get(strategies, name) # 0)]
    /\ pc' = "returned"
    /\ UNCHANGED <<rng, history, msgs, recs, before, twin, client>>

\* the caller's view after mutate: res is what DNSMutator_mutate produced
MutateDone(res) ==
    /\ strategies' = res.self.strategies
    /\ rng' = res.self.rng
    /\ history' = res.self.history
    /\ msgs' = res.msgs
    /\ recs' = res.recs
    /\ ret' = res.ret

Mutate(h, strategy_name, num_mutations) ==
    /\ pc = "idle"
    /\ Len(history) < MaxHistory
    /\ MutateDone(DNSMutator_mutate(
                      [strategies |-> strategies, rng |-> rng, history |-> history],
                      h, strategy_name, num_mutations))
    /\ before' = Value(h.msgs, h.recs, 1)
    /\ call' = [op |-> "mutate", name |-> strategy_name, num |-> num_mutations,
                weight |-> 0]
    /\ pc' = "returned"
    /\ UNCHANGED <<twin, client>>

\* a set_seed that keeps the generator it has
set_seed_kept(self, seed) == self

\* DNSMutator.set_seed: self.rng = random.Random(seed)
set_seed(self, seed) == [self EXCEPT !.rng = seed]

SetSeed(seed) ==
    /\ pc = "idle"
    /\ rng' = set_seed([strategies |-> strategies, rng |-> rng, history |-> history],
                       seed).rng
    /\ call' = [op |-> "set_seed", name |-> "", num |-> seed, weight |-> 0]
    /\ ret' = Returned(0, NoTrace)
    /\ pc' = "returned"
    /\ UNCHANGED <<strategies, history, msgs, recs, before, twin, client>>

\* the list the caller holds once self._history has dropped its records: the
\* record dicts live on in the caller's list alone
Detached(v) == [v EXCEPT !.items = [i \in 1..Len(@) |-> [@[i] EXCEPT !.at = 0]]]

\* DNSMutator.clear_history: self._history.clear()
ClearHistory ==
    /\ pc = "idle"
    /\ history' = <<>>
    /\ view' = Detached(view)
    /\ call' = [op |-> "clear_history", name |-> "", num |-> 0, weight |-> 0]
    /\ ret' = Returned(0, NoTrace)
    /\ pc' = "returned"
    /\ UNCHANGED <<strategies, rng, msgs, recs, before, twin, analyze, chain, outs, config>>

\* the caller is done with the result
Return ==
    /\ pc = "returned"
    /\ pc' = "idle"
    /\ call' = NoCall
    /\ ret' = NoRet
    /\ msgs' = <<>>
    /\ recs' = <<>>
    /\ before' = NoValue
    /\ chain' = NoChain
    /\ outs' = <<>>
    /\ UNCHANGED <<strategies, rng, history, twin, analyze, view, config>>

Next ==
    \/ \E cls \in Classes, w \in Weights : Register(cls, w)
    \/ \E name \in StrategyNames \ {None, ""} : Unregister(name)
    \/ \E h \in InputHeaps, name \in StrategyNames, num \in Counts : Mutate(h, name, num)
    \/ \E seed \in Seeds : SetSeed(seed)
    \/ ClearHistory
    \/ Return

Spec == Init /\ [][Next]_vars

-----------------------------------------------------------------------------
(* Two mutators side by side: constructed with the same seed, holding the    *)
(* same registry, and given the same calls.  The caller clears the first     *)
(* one's history after every call and lets the second one's grow past        *)
(* MaxHistory records before clearing it, so the two differ in their         *)
(* histories when a call is made.  Both calls of a pair receive the same     *)
(* input object, the second after the first has returned.                    *)

TwinInit == Constructed /\ twin = [NoTwin EXCEPT !.rng = rng]

\* the caller's view after the pair of calls: a is what the first mutator's
\* mutate produced, b what the second one's produced on the heap a left
TwinDone(a, b) ==
    /\ strategies' = a.self.strategies
    /\ rng' = a.self.rng
    /\ history' = a.self.history
    /\ ret' = a.ret
    /\ msgs' = b.msgs
    /\ recs' = b.recs
    /\ twin' = [rng |-> b.self.rng, history |-> b.self.history, ret |-> b.ret]

TwinSecond(a, strategy_name, num_mutations) ==
    TwinDone(a, DNSMutator_mutate(
                    [strategies |-> strategies, rng |-> twin.rng,
                     history |-> twin.history],
                    [msgs |-> a.msgs, recs |-> a.recs], strategy_name, num_mutations))

TwinMutate(h, strategy_name, num_mutations) ==
    /\ pc = "idle"
    /\ TwinSecond(DNSMutator_mutate(
                      [strategies |-> strategies, rng |-> rng, history |-> history],
                      h, strategy_name, num_mutations),
                  strategy_name, num_mutations)
    /\ before' = Value(h.msgs, h.recs, 1)
    /\ call' = [op |-> "mutate", name |-> strategy_name, num |-> num_mutations,
                weight |-> 0]
    /\ pc' = "returned"
    /\ UNCHANGED client

\* set_seed(seed) on both mutators
TwinSetSeed(seed) ==
    /\ pc = "idle"
    /\ rng' = seed
    /\ twin' = [twin EXCEPT !.rng = seed]
    /\ call' = [op |-> "set_seed", name |-> "", num |-> seed, weight |-> 0]
    /\ ret' = Returned(0, NoTrace)
    /\ pc' = "returned"
    /\ UNCHANGED <<strategies, history, msgs, recs, before, client>>

\* the caller is done with the results and clears the histories
TwinReturn ==
    /\ pc = "returned"
    /\ pc' = "idle"
    /\ call' = NoCall
    /\ ret' = NoRet
    /\ msgs' = <<>>
    /\ recs' = <<>>
    /\ before' = NoValue
    /\ history' = <<>>
    /\ twin' = [twin EXCEPT !.ret = NoRet,
                            !.history = IF Len(@) > MaxHistory THEN <<>> ELSE @]
    /\ UNCHANGED <<strategies, rng, client>>

\* weights the pair of mutators registers its strategies with
TwinWeights == {1, 2}

TwinNext ==
    \/ \E cls \in Classes, w \in TwinWeights : Register(cls, w)
    \/ \E name \in StrategyNames \ {None, ""} : Unregister(name)
    \/ \E h \in InputHeaps, name \in StrategyNames, num \in Counts :
          TwinMutate(h, name, num)
    \/ \E seed \in Seeds : TwinSetSeed(seed)
    \/ TwinReturn

SpecTwin == TwinInit /\ [][TwinNext]_vars

-----------------------------------------------------------------------------
(* The whole interface of one mutator: batches and strategy chains beside    *)
(* the calls of Spec.  A chain is applied by the caller that created it,     *)
(* while it still holds it.                                                  *)

MaxBatch == 2           \* queries in the list given to mutate_batch
MaxChain == 2           \* names in the list given to create_strategy_chain

\* lists of queries, each query an object of its own
Batches == UNION {[1..n -> InputHeaps] : n \in 0..MaxBatch}

\* lists of strategy names, registered or not
ChainNames == UNION {[1..n -> StrategyNames \ {None}] : n \in 0..MaxChain}

\* the caller's view after mutate_batch: end is where the comprehension ended
BatchDone(end) ==
    /\ strategies' = end.self.strategies
    /\ rng' = end.self.rng
    /\ history' = end.self.history
    /\ outs' = IF end.status = "raise" THEN <<>> ELSE end.outs
    /\ ret' = IF end.status = "raise" THEN Raised(end.exc, end.text, NoTrace)
              ELSE Returned(0, NoTrace)

MutateBatch(hs, mutations_per_query) ==
    /\ pc = "idle"
    /\ Len(history) < MaxHistory
    /\ BatchDone(mutate_batch([strategies |-> strategies, rng |-> rng,
                               history |-> history], hs, mutations_per_query))
    /\ msgs' = <<>>
    /\ recs' = <<>>
    /\ before' = [i \in 1..Len(hs) |-> Value(hs[i].msgs, hs[i].recs, 1)]
    /\ call' = [op |-> "mutate_batch", name |-> None, num |-> mutations_per_query,
                weight |-> 0]
    /\ pc' = "returned"
    /\ UNCHANGED <<twin, analyze, chain, view, config>>

\* the caller's view after create_strategy_chain
ChainCreated(res) ==
    /\ chain' = IF res.kind = "return"
                THEN [made |-> TRUE, strategies |-> res.strategies] ELSE NoChain
    /\ ret' = IF res.kind = "return" THEN Returned(0, NoTrace)
              ELSE Raised(res.exc, res.text, NoTrace)

CreateChain(strategy_names) ==
    /\ pc = "idle"
    /\ ChainCreated(create_strategy_chain(strategies, strategy_names))
    /\ call' = [op |-> "create_strategy_chain", name |-> "", num |-> 0, weight |-> 0,
                names |-> strategy_names]
    /\ pc' = "returned"
    /\ UNCHANGED <<strategies, rng, history, msgs, recs, before, twin, analyze, view, outs,
                   config>>

\* the caller's view after apply_chain(query): end is where its loop ended
ChainApplied(end) ==
    /\ rng' = end.m.rng
    /\ msgs' = end.m.msgs
    /\ recs' = end.m.recs
    /\ ret' = Returned(end.cur, end)

\* the caller applies the chain it has just been given to a query
ApplyChain(h) ==
    /\ pc = "returned"
    /\ call.op = "create_strategy_chain"
    /\ chain.made
    /\ ChainApplied(apply_chain(chain.strategies,
                                [strategies |-> strategies, rng |-> rng,
                                 history |-> history], h))
    /\ before' = Value(h.msgs, h.recs, 1)
    /\ call' = [call EXCEPT !.op = "apply_chain"]
    /\ pc' = "returned"
    /\ UNCHANGED <<strategies, history, twin, client>>

\* strategy classes and weights registered in this specification
ApiClasses == {"RandomQueryNameStrategy", "QueryAsResponseStrategy",
               "RandomRecordTypeStrategy"}
ApiWeights == {0, 1}

ApiNext ==
    \/ \E cls \in ApiClasses, w \in ApiWeights : Register(cls, w)
    \/ \E name \in StrategyNames \ {None, ""} : Unregister(name)
    \/ \E h \in InputHeaps, name \in StrategyNames, num \in Counts : Mutate(h, name, num)
    \/ \E hs \in Batches, num \in Counts : MutateBatch(hs, num)
    \/ \E seed \in Seeds : SetSeed(seed)
    \/ \E names \in ChainNames : CreateChain(names)
    \/ \E h \in InputHeaps : ApplyChain(h)
    \/ ClearHistory
    \/ Return

SpecApi == Init /\ [][ApiNext]_vars

-----------------------------------------------------------------------------
(* The registry and its accessors *)

GetStrategy(name) ==
    /\ pc = "idle"
    /\ outs' = get_strategy(strategies, name)
    /\ call' = [op |-> "get_strategy", name |-> name, num |-> 0, weight |-> 0]
    /\ ret' = Returned(0, NoTrace)
    /\ pc' = "returned"
    /\ UNCHANGED <<strategies, rng, history, msgs, recs, before, twin, analyze, chain, view,
                   config>>

ListStrategies ==
    /\ pc = "idle"
    /\ outs' = list_strategies(strategies)
    /\ call' = [op |-> "list_strategies", name |-> "", num |-> 0, weight |-> 0]
    /\ ret' = Returned(0, NoTrace)
    /\ pc' = "returned"
    /\ UNCHANGED <<strategies, rng, history, msgs, recs, before, twin, analyze, chain, view,
                   config>>

RegistryNext ==
    \/ \E cls \in Classes, w \in Weights : Register(cls, w)
    \/ \E name \in StrategyNames \ {None, ""} : Unregister(name)
    \/ \E name \in StrategyNames \ {None} : GetStrategy(name)
    \/ ListStrategies
    \/ Return

SpecRegistry == Init /\ [][RegistryNext]_vars

-----------------------------------------------------------------------------
(* Startup of the client or the authoritative server: the configuration is   *)
(* loaded, __init__ builds the mutator, and the run mutates messages with    *)
(* self.mutator.mutate(message).  Weights are counted in tenths here.        *)

\* the modules of the strategies package that hold the classes of Classes
Modules == {"basic", "header", "logical", "record"}

\* inspect.getmembers(module, inspect.isclass): the strategy classes of the
\* module, sorted by name
ModuleClasses(module) ==
    CASE module = "basic" -> <<"RandomQueryNameStrategy">>
      [] module = "header" -> <<"QueryAsResponseStrategy", "ZeroQueryIdStrategy">>
      [] module = "logical" -> <<"LogicalRecordStrategy">>
      [] module = "record" -> <<"RandomRecordTypeStrategy">>

\* the weight the constructor of the class passes to super().__init__, in tenths
DefaultWeight(cls) ==
    CASE cls = "RandomQueryNameStrategy" -> 20
      [] cls = "QueryAsResponseStrategy" -> 12
      [] cls = "ZeroQueryIdStrategy" -> 6
      [] cls = "LogicalRecordStrategy" -> 10
      [] cls = "RandomRecordTypeStrategy" -> 12

\* strategy_instance = obj()
Instance(cls) == [name |-> NameOf(cls), weight |-> DefaultWeight(cls), cls |-> cls]

\* for name, obj in inspect.getmembers(module, inspect.isclass):
\*     mutator.register_strategy(obj())
RECURSIVE register_members(_, _)
register_members(strats, classes) ==
    IF classes = <<>> THEN strats
    ELSE register_members(register_strategy(strats, Instance(Head(classes))),
                          Tail(classes))

\* for py_file in strategies_dir.glob("*.py"): ...
RECURSIVE load_modules(_, _)
load_modules(strats, files) ==
    IF files = <<>> THEN strats
    ELSE load_modules(register_members(strats, ModuleClasses(Head(files))), Tail(files))

\* create_default_mutator(seed): DNSMutator(seed) with every strategy class of
\* the package registered; files is the order glob yields the modules in
create_default_mutator(seed, files) ==
    [strategies |-> load_modules(<<>>, files), rng |-> seed, history |-> <<>>]

\* the orders glob may yield the modules in
GlobOrders == {o \in [1..Cardinality(Modules) -> Modules] :
                  \A i, j \in 1..Cardinality(Modules) : i # j => o[i] # o[j]}

MaxConfig == 2          \* strategy descriptors in the configuration
MaxRun == 2             \* messages mutated in a run

\* weights a descriptor may carry, in tenths
ConfigWeights == {5, 12}

\* StrategyConfig(name, enabled, weight)
StrategyConfig == [name : {NameOf(c) : c \in Classes}, enabled : BOOLEAN,
                   weight : ConfigWeights]

\* config.strategies: descriptors with different names
ConfigLists ==
    {l \in UNION {[1..n -> StrategyConfig] : n \in 0..MaxConfig} :
        \A i, j \in 1..Len(l) : i # j => l[i].name # l[j].name}

\* the enabled descriptors
get_enabled_strategies(l) == SelectSeq(l, LAMBDA d : d.enabled)

\* load_config: the descriptors and the seed
LoadConfig(l, seed) ==
    /\ pc = "idle"
    /\ ~config.loaded
    /\ config' = [loaded |-> TRUE, random_seed |-> seed, strategies |-> l,
                  started |-> FALSE]
    /\ UNCHANGED <<strategies, rng, history, pc, call, ret, msgs, recs, before, twin, analyze,
                   chain, view, outs>>

\* the mutator of the client or the server after __init__
Started(m) ==
    /\ strategies' = m.strategies
    /\ rng' = m.rng
    /\ history' = m.history

\* DNSFuzzerClient.__init__ / DNSAuthServer.__init__:
\* self.mutator = create_default_mutator(config.random_seed)
Startup(files) ==
    /\ pc = "idle"
    /\ config.loaded
    /\ ~config.started
    /\ Started(create_default_mutator(config.random_seed, files))
    /\ config' = [config EXCEPT !.started = TRUE]
    /\ UNCHANGED <<pc, call, ret, msgs, recs, before, twin, analyze, chain, view, outs>>

\* self.mutator.mutate(message) during the run
RunMutate(h) ==
    /\ pc = "idle"
    /\ config.started
    /\ Len(history) < MaxRun
    /\ MutateDone(DNSMutator_mutate(
                      [strategies |-> strategies, rng |-> rng, history |-> history],
                      h, None, 1))
    /\ before' = Value(h.msgs, h.recs, 1)
    /\ call' = [op |-> "mutate", name |-> None, num |-> 1, weight |-> 0]
    /\ pc' = "returned"
    /\ UNCHANGED <<twin, client>>

StartupNext ==
    \/ \E l \in ConfigLists, seed \in Seeds : LoadConfig(l, seed)
    \/ \E files \in GlobOrders : Startup(files)
    \/ \E h \in InputHeaps : RunMutate(h)
    \/ Return

SpecStartup == Init /\ [][StartupNext]_vars

-----------------------------------------------------------------------------
(* can_mutate on its own: a caller builds a message and asks a strategy.     *)
(* What can_mutate returns is a Python value, a bool or a list, and callers  *)
(* test its truth.                                                           *)

PyBool(b) == [type |-> "bool", b |-> b, l |-> <<>>]
PyList(l) == [type |-> "list", b |-> FALSE, l |-> l]

\* bool(v)
Truth(v) == IF v.type = "bool" THEN v.b ELSE v.l # <<>>

\* a or b
PyOr(a, b) == IF Truth(a) THEN a ELSE b

\* RandomResponseCodeStrategy.can_mutate: return query.is_response
RandomResponseCode_can_mutate(q) == q.is_response

\* a can_mutate that looks at the answers only
ResponseAsQuery_can_mutate_answers(q) == PyOr(PyBool(q.is_response), PyList(q.answers))

\* ResponseAsQueryStrategy.can_mutate:
\* return query.is_response or query.answers or query.authorities or query.additional
ResponseAsQuery_can_mutate(q) ==
    PyOr(PyOr(PyOr(PyBool(q.is_response), PyList(q.answers)), PyList(q.authorities)),
         PyList(q.additional))

GatingClasses == {"RandomQueryNameStrategy", "RandomResponseCodeStrategy",
                  "ResponseAsQueryStrategy"}

\* strategy.can_mutate(query) for an instance of the class, as the value returned
can_mutate_value(cls, q) ==
    CASE cls = "RandomQueryNameStrategy" -> PyBool(RandomQueryName_can_mutate(q))
      [] cls = "RandomResponseCodeStrategy" -> PyBool(RandomResponseCode_can_mutate(q))
      [] cls = "ResponseAsQueryStrategy" -> ResponseAsQuery_can_mutate(q)

MaxSection == 2         \* records in a section of a message

\* the record lists of a section: the first n records of the heap
Sections == {[i \in 1..n |-> i] : n \in 0..MaxSection}

\* messages with every combination of the response flag and section sizes
GatingHeaps ==
    {[msgs |-> <<DNSQuery(12345, resp, an, au, ad)>>,
      recs |-> [i \in 1..MaxSection |-> Record("example.com", "A", "127.0.0.1")]] :
        resp \in BOOLEAN, an \in Sections, au \in Sections, ad \in Sections}

\* the caller builds a message
Build(h) ==
    /\ pc = "idle"
    /\ msgs = <<>>
    /\ msgs' = h.msgs
    /\ recs' = h.recs
    /\ UNCHANGED <<strategies, rng, history, pc, call, ret, before, twin, client>>

\* strategy.can_mutate(query) on the message built
CanMutate(cls) ==
    /\ pc = "idle"
    /\ msgs # <<>>
    /\ outs' = <<can_mutate_value(cls, msgs[1])>>
    /\ call' = [op |-> "can_mutate", name |-> cls, num |-> 0, weight |-> 0]
    /\ ret' = Returned(0, NoTrace)
    /\ pc' = "returned"
    /\ UNCHANGED <<strategies, rng, history, msgs, recs, before, twin, analyze, chain, view,
                   config>>

GatingNext ==
    \/ \E h \in GatingHeaps : Build(h)
    \/ \E cls \in GatingClasses : CanMutate(cls)
    \/ Return

SpecGating == Init /\ [][GatingNext]_vars

-----------------------------------------------------------------------------
(* A mutator that has been in use and is given a new seed, beside a mutator  *)
(* constructed with that seed and handed the same registry.  From then on    *)
(* both are given the same calls.                                            *)

\* no second mutator yet
Absent == [NoTwin EXCEPT !.ret.kind = "absent"]

SeedInit == Constructed /\ twin = Absent

\* DNSMutator.__init__: self.rng = random.Random(seed), self._history = []
DNSMutator_init(seed) == [rng |-> seed, history |-> <<>>, ret |-> NoRet]

\* a call on the first mutator alone, before the second exists
SeedMutate(h, strategy_name, num_mutations) ==
    /\ twin = Absent
    /\ Mutate(h, strategy_name, num_mutations)

SeedClearHistory ==
    /\ twin = Absent
    /\ ClearHistory

\* set_seed(seed) on the first mutator; the second is constructed with seed
Reseed(seed) ==
    /\ pc = "idle"
    /\ twin = Absent
    /\ rng' = set_seed([strategies |-> strategies, rng |-> rng, history |-> history],
                       seed).rng
    /\ twin' = DNSMutator_init(seed)
    /\ call' = [op |-> "set_seed", name |-> "", num |-> seed, weight |-> 0]
    /\ ret' = Returned(0, NoTrace)
    /\ pc' = "returned"
    /\ UNCHANGED <<strategies, history, msgs, recs, before, client>>

\* the same mutate call on both
SeedPair(h, strategy_name, num_mutations) ==
    /\ twin # Absent
    /\ Len(twin.history) <= MaxHistory
    /\ TwinMutate(h, strategy_name, num_mutations)

\* the caller is done with the results
SeedReturn ==
    /\ pc = "returned"
    /\ pc' = "idle"
    /\ call' = NoCall
    /\ ret' = NoRet
    /\ msgs' = <<>>
    /\ recs' = <<>>
    /\ before' = NoValue
    /\ twin' = IF twin = Absent THEN twin ELSE [twin EXCEPT !.ret = NoRet]
    /\ UNCHANGED <<strategies, rng, history, client>>

\* the caller lets go of the second mutator and clears the first one's history
SeedDrop ==
    /\ pc = "idle"
    /\ twin # Absent
    /\ twin' = Absent
    /\ history' = <<>>
    /\ UNCHANGED <<strategies, rng, pc, call, ret, msgs, recs, before, client>>

\* the strategies the two mutators register
SeedClasses == {"RandomQueryNameStrategy", "QueryAsResponseStrategy",
                "RandomRecordTypeStrategy"}

SeedNext ==
    \/ \E cls \in SeedClasses, w \in TwinWeights : Register(cls, w)
    \/ \E name \in StrategyNames \ {None, ""} : Unregister(name)
    \/ \E h \in InputHeaps, name \in StrategyNames, num \in Counts :
          SeedMutate(h, name, num)
    \/ SeedClearHistory
    \/ \E seed \in Seeds : Reseed(seed)
    \/ \E h \in InputHeaps, name \in StrategyNames, num \in Counts :
          SeedPair(h, name, num)
    \/ SeedReturn
    \/ SeedDrop

SpecSeed == SeedInit /\ [][SeedNext]_vars

-----------------------------------------------------------------------------
(* The history and the list get_history hands out.  An item of the caller's  *)
(* list is a record dict: `at` is its position in self._history while the    *)
(* mutator's list holds the same dict (0 when it does not), `val` its        *)
(* content.                                                                  *)

\* self._history.copy(): a new list of the same record dicts
get_history(h) == [taken |-> TRUE, items |-> [k \in 1..Len(h) |-> [at |-> k, val |-> h[k]]]]

GetHistory ==
    /\ pc = "idle"
    /\ view' = get_history(history)
    /\ call' = [op |-> "get_history", name |-> "", num |-> 0, weight |-> 0]
    /\ ret' = Returned(0, NoTrace)
    /\ pc' = "returned"
    /\ UNCHANGED <<strategies, rng, history, msgs, recs, before, twin, analyze, chain, outs,
                   config>>

\* a record the caller makes up
ForeignRecord ==
    [original_id |-> 0, mutated_id |-> 0, strategies |-> <<>>, num_mutations |-> 0]

\* returned.append(record)
ViewAppend ==
    /\ pc = "idle"
    /\ view.taken
    /\ Len(view.items) <= MaxHistory
    /\ view' = [view EXCEPT !.items = Append(@, [at |-> 0, val |-> ForeignRecord])]
    /\ UNCHANGED <<strategies, rng, history, pc, call, ret, msgs, recs, before, twin, analyze,
                   chain, outs, config>>

\* returned.pop()
ViewRemove ==
    /\ pc = "idle"
    /\ view.taken
    /\ view.items # <<>>
    /\ view' = [view EXCEPT !.items = SubSeq(@, 1, Len(@) - 1)]
    /\ UNCHANGED <<strategies, rng, history, pc, call, ret, msgs, recs, before, twin, analyze,
                   chain, outs, config>>

\* the content of a record dict after the caller's write: a field assigned
\* (record['num_mutations'] = -1) or the list of names extended
\* (record['strategies'].append(...))
Written(rec, kind) ==
    IF kind = "field" THEN [rec EXCEPT !.num_mutations = 0 - 1]
    ELSE [rec EXCEPT !.strategies = Append(@, "dropped")]

EditKinds == {"field", "list"}

\* a write to the i-th record of the returned list; the dict is the one
\* self._history holds at position `at`, if it still holds it
ViewEdit(i, kind) ==
    /\ pc = "idle"
    /\ view.taken
    /\ i \in 1..Len(view.items)
    /\ Len(view.items[i].val.strategies) <= MaxCount
    /\ view.items[i].val.num_mutations >= 0
    /\ view' = [view EXCEPT !.items[i].val = Written(@, kind)]
    /\ history' = IF view.items[i].at = 0 THEN history
                  ELSE [history EXCEPT ![view.items[i].at] = Written(@, kind)]
    /\ UNCHANGED <<strategies, rng, pc, call, ret, msgs, recs, before, twin, analyze,
                   chain, outs, config>>

\* the caller throws the list away
ViewDrop ==
    /\ pc = "idle"
    /\ view.taken
    /\ view' = NoView
    /\ UNCHANGED <<strategies, rng, history, pc, call, ret, msgs, recs, before, twin, analyze,
                   chain, outs, config>>

ViewClasses == {"RandomQueryNameStrategy", "ZeroQueryIdStrategy"}

ViewNext ==
    \/ \E cls \in ViewClasses : Register(cls, 1)
    \/ \E h \in InputHeaps, num \in Counts : Mutate(h, None, num)
    \/ GetHistory
    \/ ViewAppend
    \/ ViewRemove
    \/ \E i \in 1..(MaxHistory + 1), kind \in EditKinds : ViewEdit(i, kind)
    \/ ViewDrop
    \/ ClearHistory
    \/ Return

SpecView == Init /\ [][ViewNext]_vars

-----------------------------------------------------------------------------
(* A mutator whose registry holds RandomQueryIdStrategy alone, and           *)
(* mutate_numeric_field on its own with the two values the generator         *)
(* returns chosen freely.                                                    *)

\* query ids of the messages given to mutate
IdValues == {0, 1, 100, 12345, 65435, 65535}

IdHeaps ==
    {[msgs |-> <<DNSQuery(id, FALSE, <<>>, <<>>, <<>>)>>, recs |-> <<>>] : id \in IdValues}
    \cup {[msgs |-> <<DNSQuery(id, TRUE, <<1>>, <<>>, <<>>)>>,
           recs |-> <<Record("example.com", "A", "127.0.0.1")>>] : id \in IdValues}

\* every state of the generator
IdSeeds == 0..(RngMod - 1)

\* what the second call on the generator may return for the mutation type
NumericDraws(mutation_type, min_val, max_val) ==
    CASE mutation_type = "random" -> {min_val, (min_val + max_val) \div 2, max_val}
      [] mutation_type = "boundary" -> 1..Len(boundaries(min_val, max_val))
      [] mutation_type \in {"increment", "decrement"} -> {1, 50, 100}
      [] mutation_type = "bit_flip" -> 0..15

\* self.mutate_numeric_field(rng, value, 0, 65535) with rng.choice returning
\* mutation_type and the second call returning d
NumericField(mutation_type, d, value) ==
    /\ pc = "idle"
    /\ outs' = <<mutate_numeric(mutation_type, d, value, 0, 65535)>>
    /\ call' = [op |-> "mutate_numeric_field", name |-> mutation_type, num |-> 0,
                weight |-> 0, value |-> value, draw |-> d]
    /\ ret' = Returned(0, NoTrace)
    /\ pc' = "returned"
    /\ UNCHANGED <<strategies, rng, history, msgs, recs, before, twin, analyze, chain, view,
                   config>>

IdNext ==
    \/ Register("RandomQueryIdStrategy", 1)
    \/ \E h \in IdHeaps : Mutate(h, None, 1)
    \/ \E seed \in IdSeeds : SetSeed(seed)
    \/ \E i \in 1..Len(DEFAULT_NUMERIC_TYPE), value \in IdValues :
          \E d \in NumericDraws(DEFAULT_NUMERIC_TYPE[i], 0, 65535) :
              NumericField(DEFAULT_NUMERIC_TYPE[i], d, value)
    \/ ClearHistory
    \/ Return

SpecId == Init /\ [][IdNext]_vars

-----------------------------------------------------------------------------
(* A strategy on its own: a caller builds a message and calls                *)
(* strategy.mutate(message, rng) on an instance of a strategy class, the     *)
(* generator being in any of its states.                                     *)

\* the caller's view after strategy.mutate: res is what it returned
StrategyDone(res) ==
    /\ msgs' = res.msgs
    /\ recs' = res.recs
    /\ rng' = res.rng
    /\ ret' = Returned(res.out, NoTrace)

StrategyMutate(cls) ==
    /\ pc = "idle"
    /\ msgs # <<>>
    /\ StrategyDone(mutate([name |-> NameOf(cls), weight |-> 1, cls |-> cls],
                           [msgs |-> msgs, recs |-> recs, rng |-> rng], 1))
    /\ before' = Value(msgs, recs, 1)
    /\ call' = [op |-> "strategy_mutate", name |-> cls, num |-> 0, weight |-> 0]
    /\ pc' = "returned"
    /\ UNCHANGED <<strategies, history, twin, client>>

\* the strategy classes called on their own
StrategyClasses ==
    {"TruncatedFlagStrategy", "QueryAsResponseStrategy", "RecordCompressionStrategy",
     "WildcardRecordStrategy", "LogicalRecordStrategy"}

StrategyNext ==
    \/ \E h \in GatingHeaps : Build(h)
    \/ \E seed \in IdSeeds : SetSeed(seed)
    \/ \E cls \in StrategyClasses : StrategyMutate(cls)
    \/ Return

SpecStrategy == Init /\ [][StrategyNext]_vars

-----------------------------------------------------------------------------
(* A chain that is kept: the caller holds the function create_strategy_chain *)
(* returned across later calls on the mutator and applies it when it likes.  *)

\* an apply_chain that looks the names of its strategies up when it is applied
held_apply_rebound(ch, self, h) ==
    apply_chain(chain_resolve_skipping(self.strategies, Names(ch.strategies), <<>>).strategies,
                self, h)

\* apply_chain(query) of the chain ch the caller holds: the closure's
\* `strategies` list and `self.rng` as it is now
held_apply(ch, self, h) == apply_chain(ch.strategies, self, h)

\* the caller applies the chain it holds
HeldApply(h) ==
    /\ pc = "idle"
    /\ chain.made
    /\ ChainApplied(held_apply(chain, [strategies |-> strategies, rng |-> rng,
                                       history |-> history], h))
    /\ before' = Value(h.msgs, h.recs, 1)
    /\ call' = [op |-> "apply_chain", name |-> "", num |-> 0, weight |-> 0]
    /\ pc' = "returned"
    /\ UNCHANGED <<strategies, history, twin, client>>

\* the caller is done with the result and keeps the chain
HeldReturn ==
    /\ pc = "returned"
    /\ pc' = "idle"
    /\ call' = NoCall
    /\ ret' = NoRet
    /\ msgs' = <<>>
    /\ recs' = <<>>
    /\ before' = NoValue
    /\ outs' = <<>>
    /\ UNCHANGED <<strategies, rng, history, twin, analyze, chain, view, config>>

HeldNext ==
    \/ \E cls \in ApiClasses, w \in ApiWeights : Register(cls, w)
    \/ \E cls \in ApiClasses : Unregister(NameOf(cls))
    \/ \E seed \in Seeds : SetSeed(seed)
    \/ \E names \in ChainNames : CreateChain(names)
    \/ \E h \in InputHeaps : HeldApply(h)
    \/ HeldReturn

SpecHeld == Init /\ [][HeldNext]_vars

-----------------------------------------------------------------------------
(* mutate step by step, for the question whether it returns.  Only what the  *)
(* control flow depends on is kept: the rounds done, whether the message is  *)
(* a response by now, and the counters of the two while loops.  Every value  *)
(* the generator returns is a free choice.  The activation record is `call`. *)

MaxAppended == 2        \* answers counted in the loop of QueryAsResponseStrategy

LoopClasses == {"QueryAsResponseStrategy", "LongQueryNameStrategy", "ZeroQueryIdStrategy"}

\* target_length = rng.randint(250, 300): the values tried
LongTargets == {250, 275, 300}

\* mutate(query, num_mutations=num) is called on a query or a response
LoopCall(num, resp) ==
    /\ pc = "idle"
    /\ strategies # <<>>
    /\ pc' = "round"
    /\ call' = [op |-> "mutate", name |-> None, num |-> num, weight |-> 0, i |-> 0,
                resp |-> resp, appended |-> 0, tick |-> FALSE, current |-> 0,
                target |-> 0]
    /\ UNCHANGED <<strategies, rng, history, ret, msgs, recs, before, twin, client>>

\* the strategies _sample may return for the message as it is now
LoopApplicable ==
    {k \in 1..Len(strategies) : can_mutate(strategies[k], [is_response |-> call.resp])}

\* the round is over: on to the next pass of `for i in range(num_mutations)`
RoundOver(resp) == [call EXCEPT !.i = @ + 1, !.resp = resp, !.appended = 0,
                                !.tick = FALSE, !.current = 0, !.target = 0]

\* range(num_mutations) is exhausted, or _sample found nothing applicable: the
\* history record is appended and mutate returns
LoopFinish ==
    /\ pc = "round"
    /\ call.i = call.num \/ LoopApplicable = {}
    /\ pc' = "returned"
    /\ ret' = Returned(0, NoTrace)
    /\ UNCHANGED <<strategies, rng, history, call, msgs, recs, before, twin, client>>

\* a round that samples ZeroQueryIdStrategy: straight-line code
RoundZeroQueryId ==
    /\ pc = "round"
    /\ call.i < call.num
    /\ \E k \in LoopApplicable : strategies[k].cls = "ZeroQueryIdStrategy"
    /\ call' = RoundOver(call.resp)
    /\ UNCHANGED <<strategies, rng, history, pc, ret, msgs, recs, before, twin, client>>

\* a round that samples QueryAsResponseStrategy: add is what
\* rng.choice([True, False]) returns before the answers are built
RoundQueryAsResponse(add) ==
    /\ pc = "round"
    /\ call.i < call.num
    /\ \E k \in LoopApplicable : strategies[k].cls = "QueryAsResponseStrategy"
    /\ IF add
       THEN pc' = "qar_while" /\ call' = [call EXCEPT !.resp = TRUE, !.appended = 1]
       ELSE pc' = "round" /\ call' = RoundOver(TRUE)
    /\ UNCHANGED <<strategies, rng, history, ret, msgs, recs, before, twin, client>>

\* while rng.randint(0, 5) != 0: mutated.answers.append(...); d is the draw
QarWhile(d) ==
    /\ pc = "qar_while"
    /\ IF d = 0
       THEN pc' = "round" /\ call' = RoundOver(TRUE)
       ELSE pc' = pc /\ call' = [call EXCEPT !.appended = Min(@ + 1, MaxAppended),
                                              !.tick = ~@]
    /\ UNCHANGED <<strategies, rng, history, ret, msgs, recs, before, twin, client>>

\* a round that samples LongQueryNameStrategy: the first two branches are loops
\* over a range, the third enters the while loop with the target drawn
RoundLongQueryName(strategy, target_length) ==
    /\ pc = "round"
    /\ call.i < call.num
    /\ \E k \in LoopApplicable : strategies[k].cls = "LongQueryNameStrategy"
    /\ IF strategy = "max_length"
       THEN pc' = "long_while" /\ call' = [call EXCEPT !.target = target_length]
       ELSE pc' = "round" /\ call' = RoundOver(call.resp)
    /\ UNCHANGED <<strategies, rng, history, ret, msgs, recs, before, twin, client>>

\* label_length = min(rng.randint(3, 15), remaining - 1)
label_length(d, current_length, target_length) ==
    Min(d, target_length - current_length - 1)

\* one test of `while current_length < target_length` and the pass that follows;
\* d is what rng.randint(3, 15) returns
LongWhile(d) ==
    /\ pc = "long_while"
    /\ IF call.current < call.target /\ label_length(d, call.current, call.target) > 0
       THEN pc' = pc /\ call' = [call EXCEPT !.current =
                                     @ + label_length(d, call.current, call.target) + 1]
       ELSE pc' = "round" /\ call' = RoundOver(call.resp)
    /\ UNCHANGED <<strategies, rng, history, ret, msgs, recs, before, twin, client>>

\* the steps of the running call
LoopRun ==
    \/ LoopFinish
    \/ RoundZeroQueryId
    \/ \E add \in BOOLEAN : RoundQueryAsResponse(add)
    \/ \E d \in 0..5 : QarWhile(d)
    \/ \E i \in 1..Len(DEFAULT_LONG_QUERY_NAME_STRATEGY), t \in LongTargets :
          RoundLongQueryName(DEFAULT_LONG_QUERY_NAME_STRATEGY[i], t)
    \/ \E d \in 3..15 : LongWhile(d)

LoopNext ==
    \/ \E cls \in LoopClasses : Register(cls, 1)
    \/ \E num \in Counts, resp \in BOOLEAN : LoopCall(num, resp)
    \/ LoopRun
    \/ Return

\* the interpreter keeps executing a call that can take a step
SpecLoop == Init /\ [][LoopNext]_vars /\ WF_vars(LoopRun)

-----------------------------------------------------------------------------
(* LogicalRecordGenerator: the scenarios as functions of what the generator  *)
(* returns.  The draws that shape a scenario are parameters: the names from  *)
(* random_domain_name, the counts, the choices; one ttl stands for the ttl   *)
(* of every record, and the addresses are one constant.                      *)

\* what random_domain_name(rng, max_labels=2) may return
DomainDraws == {"a.com.", "b.example.org."}

\* what rng.randint gives for a ttl: the ends of the two ranges
TtlDraws == {300, 3600, 86400}

Scenarios == <<"ns_with_glue", "cname_chain", "cname_loop">>

\* one pass of the loop that omits the A record unless the AAAA one is added
ns_pass_unglued(i, zone_name, aaaa, ttl) ==
    <<[name |-> zone_name, type |-> "NS", class |-> "IN", ttl |-> ttl,
       rdata |-> "ns" \o ToString(i) \o "." \o zone_name]>>
    \o IF aaaa
       THEN <<[name |-> "ns" \o ToString(i) \o "." \o zone_name, type |-> "A",
               class |-> "IN", ttl |-> ttl, rdata |-> "1.2.3.4"],
              [name |-> "ns" \o ToString(i) \o "." \o zone_name, type |-> "AAAA",
               class |-> "IN", ttl |-> ttl, rdata |-> "::1"]>>
       ELSE <<>>

\* one pass of `for i in range(ns_count)`, i counted from 1 as in ns{i+1}: the
\* NS record, its glue A record, and the AAAA one if rng.choice says so
ns_pass(i, zone_name, aaaa, ttl) ==
    <<[name |-> zone_name, type |-> "NS", class |-> "IN", ttl |-> ttl,
       rdata |-> "ns" \o ToString(i) \o "." \o zone_name],
      [name |-> "ns" \o ToString(i) \o "." \o zone_name, type |-> "A",
       class |-> "IN", ttl |-> ttl, rdata |-> "1.2.3.4"]>>
    \o IF aaaa
       THEN <<[name |-> "ns" \o ToString(i) \o "." \o zone_name, type |-> "AAAA",
               class |-> "IN", ttl |-> ttl, rdata |-> "::1"]>>
       ELSE <<>>

\* the records after the first n passes
RECURSIVE ns_passes(_, _, _, _)
ns_passes(n, zone_name, aaaa, ttl) ==
    IF n = 0 THEN <<>>
    ELSE ns_passes(n - 1, zone_name, aaaa, ttl) \o ns_pass(n, zone_name, aaaa[n], ttl)

\* generate_ns_with_glue_scenario with zone_name and ns_count as drawn
generate_ns_with_glue_scenario(zone_name, ns_count, aaaa, ttl) ==
    ns_passes(ns_count, zone_name, aaaa, ttl)

\* the domains of a chain: alias1.<name>, target1.<name>, target2.<name>, ...
chain_domains(chain_length, names) ==
    [i \in 1..chain_length |->
        IF i = 1 THEN "alias1." \o names[1]
        ELSE "target" \o ToString(i - 1) \o "." \o names[i]]

\* a target that is always the next domain
cname_target_forward(domains, i, create_loop) == domains[i + 1]

\* target = domains[0] if create_loop and i == len(domains) - 2 else domains[i + 1]
\* (i counted from 1 here)
cname_target(domains, i, create_loop) ==
    IF create_loop /\ i = Len(domains) - 1 THEN domains[1] ELSE domains[i + 1]

\* the CNAME records, and the final A record unless it is a loop
chain_records(domains, create_loop, ttl) ==
    [i \in 1..(Len(domains) - 1) |->
        [name |-> domains[i], type |-> "CNAME", class |-> "IN", ttl |-> ttl,
         rdata |-> cname_target(domains, i, create_loop)]]
    \o IF create_loop THEN <<>>
       ELSE <<[name |-> domains[Len(domains)], type |-> "A", class |-> "IN",
               ttl |-> ttl, rdata |-> "1.2.3.4"]>>

\* generate_cname_chain_scenario with chain_length as given or drawn
generate_cname_chain_scenario(chain_length, create_loop, names, ttl) ==
    chain_records(chain_domains(chain_length, names), create_loop, ttl)

\* generate_logical_records(rng, scenario_type) for the three scenarios, d
\* holding what the generator returns
generate_logical_records(scenario_type, d) ==
    CASE scenario_type = "ns_with_glue" ->
             generate_ns_with_glue_scenario(d.names[1], d.ns_count, d.aaaa, d.ttl)
      [] scenario_type = "cname_chain" ->
             generate_cname_chain_scenario(d.chain_length, FALSE, d.names, d.ttl)
      [] scenario_type = "cname_loop" ->
             generate_cname_chain_scenario(d.chain_length, TRUE, d.names, d.ttl)

\* everything the generator may return in one scenario
ScenarioDraws ==
    [names : [1..5 -> DomainDraws], ns_count : 2..4, aaaa : [1..4 -> BOOLEAN],
     ttl : TtlDraws, chain_length : 2..5]

\* the draws a scenario does not read, held at one value
Relevant(scenario_type, d) ==
    IF scenario_type = "ns_with_glue"
    THEN /\ d.chain_length = 2
         /\ \A i \in 2..5 : d.names[i] = d.names[1]
         /\ \A i \in (d.ns_count + 1)..4 : ~d.aaaa[i]
    ELSE /\ d.ns_count = 2
         /\ \A i \in 1..4 : ~d.aaaa[i]
         /\ \A i \in (d.chain_length + 1)..5 : d.names[i] = d.names[1]

\* a caller asks for a scenario and keeps the list
GenerateLogicalRecords(scenario_type, d) ==
    /\ pc = "idle"
    /\ Relevant(scenario_type, d)
    /\ outs' = generate_logical_records(scenario_type, d)
    /\ call' = [op |-> "generate_logical_records", name |-> scenario_type, num |-> 0,
                weight |-> 0, draws |-> d]
    /\ ret' = Returned(0, NoTrace)
    /\ pc' = "returned"
    /\ UNCHANGED <<strategies, rng, history, msgs, recs, before, twin, analyze, chain, view,
                   config>>

ScenarioNext ==
    \/ \E i \in 1..Len(Scenarios), d \in ScenarioDraws :
          GenerateLogicalRecords(Scenarios[i], d)
    \/ Return

SpecScenario == Init /\ [][ScenarioNext]_vars

-----------------------------------------------------------------------------
(* The analyze service: a ThreadingTCPServer that runs every request in a    *)
(* thread of its own.  A handler thread fetches a result, writes it to a     *)
(* file under the server's lock, and then -- the lock released -- adds it to *)
(* the CompareEngine's window and computes a summary.  A step of a thread is *)
(* one operation on the shared list.                                         *)

MaxThreads == 2         \* handler threads alive at a time
MaxResults == 3         \* results fetched while the service runs

\* config.compare_window_size as given to the service
WindowSizes == {0, 1, 2}

Threads == 1..MaxThreads

\* a handler thread that is not running
NoThread == [pc |-> "idle", result |-> 0, summed |-> FALSE, seen |-> <<>>, at |-> 0]

\* every step of the service leaves the mutator and its caller alone
AnalyzeStep(a) ==
    /\ analyze' = a
    /\ UNCHANGED <<strategies, rng, history, pc, call, ret, msgs, recs, before, twin,
                   chain, view, outs, config>>

\* AnalyzeServer.__init__: self._lock = threading.Lock(), self.compare =
\* CompareEngine(window_size), whose __init__ keeps max(1, int(window_size))
Serve(window_size) ==
    /\ ~analyze.up
    /\ AnalyzeStep([NoAnalyze EXCEPT !.up = TRUE, !.window_size = Max(1, window_size),
                                     !.threads = [t \in Threads |-> NoThread]])

\* a request arrives: a thread is started, handle() calls query_dnsm and then
\* persist_result(result)
Handle(t) ==
    /\ analyze.up
    /\ analyze.threads[t].pc = "idle"
    /\ analyze.arrived < MaxResults
    /\ AnalyzeStep([analyze EXCEPT !.arrived = @ + 1,
                                   !.threads[t] = [NoThread EXCEPT !.pc = "write",
                                                                   !.result = analyze.arrived + 1]])

\* with self._lock: entered
Acquire(t) ==
    /\ analyze.up
    /\ analyze.threads[t].pc = "write"
    /\ analyze.lock = 0
    /\ AnalyzeStep([analyze EXCEPT !.lock = t, !.threads[t].pc = "locked"])

\* json.dump(result, f) done and the with block left
Release(t) ==
    /\ analyze.up
    /\ analyze.threads[t].pc = "locked"
    /\ AnalyzeStep([analyze EXCEPT !.lock = 0, !.threads[t].pc = "append"])

\* add_result: self.window.append(result)
AddAppend(t) ==
    /\ analyze.up
    /\ analyze.threads[t].pc = "append"
    /\ AnalyzeStep([analyze EXCEPT !.window = Append(@, analyze.threads[t].result),
                                   !.log = Append(@, analyze.threads[t].result),
                                   !.threads[t].pc = "test"])

\* add_result: if len(self.window) > self.window_size
AddTest(t) ==
    /\ analyze.up
    /\ analyze.threads[t].pc = "test"
    /\ AnalyzeStep([analyze EXCEPT !.threads[t].pc =
                        IF Len(analyze.window) > analyze.window_size THEN "pop"
                        ELSE "summary"])

\* add_result: self.window.pop(0)
AddPop(t) ==
    /\ analyze.up
    /\ analyze.threads[t].pc = "pop"
    /\ AnalyzeStep([analyze EXCEPT !.window = Tail(@), !.threads[t].pc = "summary"])

\* save_summary -> compute_summary: the window as the thread reads it, taken
\* here in one step; `at` notes how many results had been added by then
ComputeSummary(t) ==
    /\ analyze.up
    /\ analyze.threads[t].pc = "summary"
    /\ AnalyzeStep([analyze EXCEPT !.threads[t] =
                        [pc |-> "idle", result |-> 0, summed |-> TRUE,
                         seen |-> analyze.window, at |-> Len(analyze.log)]])

AnalyzeNext ==
    \/ \E w \in WindowSizes : Serve(w)
    \/ \E t \in Threads :
          \/ Handle(t)
          \/ Acquire(t)
          \/ Release(t)
          \/ AddAppend(t)
          \/ AddTest(t)
          \/ AddPop(t)
          \/ ComputeSummary(t)

SpecAnalyze == Init /\ [][AnalyzeNext]_vars

-----------------------------------------------------------------------------
(* Properties *)

\* the caller holds the result of a mutate call
MutateReturned == pc = "returned" /\ call.op = "mutate"

\* the step is a mutate call
MutateStep == pc = "idle" /\ pc' = "returned" /\ call'.op = "mutate"

RandomMode == ~Truthy(call.name)

\* C1: after Mutate returns (or raises), the input message still has the value it
\* had before the call: every header and question field and every record of its
\* three sections.
C1_InputUnchanged == MutateReturned => Value(msgs, recs, 1) = before

\* C2: every strategy.mutate(m, rng) of the call returned an object other than m
\* that shares no record dict with m (section lists are per object; the records
\* in them are the mutable structure two objects can share).
C2_NoAliasing ==
    MutateReturned =>
        \A i \in 1..Len(ret.invoked) :
            /\ ret.invoked[i].out # ret.invoked[i].arg
            /\ RecordsOf(msgs, ret.invoked[i].out) \cap RecordsOf(msgs, ret.invoked[i].arg) = {}

\* the caller holds the results of a pair of calls, one on each mutator
TwinReturned == MutateReturned /\ twin.ret.kind # "none"

C5_UnknownNameFails ==
    [][(MutateStep /\ strategies # <<>> /\ call'.name # None
            /\ get(strategies, call'.name) = 0) =>
          /\ ret'.kind = "raise"
          /\ ret'.exc = NoSuchStrategyError
          /\ ret'.invoked = <<>>
          /\ ret'.value = 0
          /\ history' = history]_vars

\* the exception mutate raises in a round for a strategy name that get() does not find
UnknownNameError == round_by_name(<<>>, 0, [status |-> "run", exc |-> "", text |-> ""]).exc

\* C6: the error raised by Mutate on an empty registry is of another kind than
\* the error raised for a strategy name that is not registered.
C6_DistinctErrorKinds ==
    (MutateReturned /\ strategies = <<>> /\ ret.kind = "raise") =>
        ret.exc # UnknownNameError

C8_OnlyApplicableInvoked ==
    MutateReturned => \A i \in 1..Len(ret.invoked) : ret.invoked[i].can

RECURSIVE SumSeq(_, _)
SumSeq(ws, k) == IF k = 0 THEN 0 ELSE SumSeq(ws, k - 1) + ws[k]

\* the first position of ws whose cumulative weight exceeds d
FirstExceeding(ws, d) ==
    CHOOSE k \in 1..Len(ws) :
        /\ SumSeq(ws, k) > d
        /\ \A j \in 1..(k - 1) : SumSeq(ws, j) <= d

\* positions of the registry whose strategy can be applied to q, ascending
ApplicablePositions(q) == {k \in 1..Len(strategies) : can_mutate(strategies[k], q)}

\* the k-th smallest element of a set of positions
RECURSIVE Nth(_, _)
Nth(S, k) ==
    LET lo == CHOOSE x \in S : \A y \in S : x <= y
    IN IF k = 1 THEN lo ELSE Nth(S \ {lo}, k - 1)

\* C9: for every input message and the registry as it stands, when the
\* applicable strategies have total weight T > 0, every draw d in [0, T) selects
\* the first strategy, in registry order among the applicable ones, whose
\* cumulative weight exceeds d; the selected strategy is applicable and has a
\* positive weight, and every applicable strategy of positive weight is selected
\* by some draw and by some state of the generator.  Every selection the last
\* call made obeys the same rule.
C9_WeightedSampling ==
    /\ \A h \in InputHeaps :
          LET q == h.msgs[1]
              P == ApplicablePositions(q)
              n == Cardinality(P)
              ws == [k \in 1..n |-> strategies[Nth(P, k)].weight]
              T == SumSeq(ws, n)
              app == applicable_strategies(strategies, q)
          IN (n > 0 /\ T > 0) =>
               /\ \A d \in 0..(T - 1) :
                     LET s == app[pick_at(accumulate(WeightsOf(app)), d, Len(app))]
                     IN /\ s = strategies[Nth(P, FirstExceeding(ws, d))]
                        /\ can_mutate(s, q)
                        /\ s.weight > 0
               /\ \A k \in P :
                     strategies[k].weight > 0 =>
                        /\ \E d \in 0..(T - 1) :
                              app[pick_at(accumulate(WeightsOf(app)), d, Len(app))]
                                  = strategies[k]
                        /\ \E r \in 0..(RngMod - 1) :
                              sample(strategies, q, r).strategy = strategies[k]
    /\ MutateReturned =>
          \A i \in 1..Len(ret.samples) :
              LET e == ret.samples[i]
              IN e.kind = "pick" =>
                   /\ e.d \in 0..(SumSeq(e.weights, Len(e.weights)) - 1)
                   /\ e.chosen = e.applicable[FirstExceeding(e.weights, e.d)]
                   /\ e.applicable =
                         [k \in 1..Cardinality(ApplicablePositions(msgs[e.on])) |->
                             strategies[Nth(ApplicablePositions(msgs[e.on]), k)].name]

\* the last call drew d = 2 over applicable weights <<2, 1>> and selected the
\* second strategy
C9_Witness ==
    /\ MutateReturned /\ RandomMode
    /\ \E i \in 1..Len(ret.samples) :
          /\ ret.samples[i].kind = "pick"
          /\ ret.samples[i].weights = <<2, 1>>
          /\ ret.samples[i].d = 2
          /\ ret.samples[i].chosen = ret.samples[i].applicable[2]

\* C10: when every strategy applicable to the current message has weight 0,
\* random-mode Mutate completes without raising, returns a message and appends
\* its history record.
C10_ZeroWeightNoCrash ==
    [][(MutateStep /\ ~Truthy(call'.name)
            /\ \E i \in 1..Len(ret'.samples) :
                  /\ ret'.samples[i].applicable # <<>>
                  /\ \A k \in 1..Len(ret'.samples[i].weights) :
                        ret'.samples[i].weights[k] = 0) =>
          /\ ret'.kind = "return"
          /\ ret'.value # 0
          /\ Len(history') = Len(history) + 1]_vars

\* the record a call that returned the object at address out of the heap ms must
\* have appended for an input of value input
LedgerRecord(input, ms, out, names) ==
    [original_id |-> input.query_id, mutated_id |-> ms[out].query_id,
     strategies |-> names, num_mutations |-> Len(names)]

\* the records a batch that returned must have appended, one per input in list order
BatchLedger(inputs, results) ==
    [i \in 1..Len(inputs) |->
        LedgerRecord(inputs[i], results[i].msgs, results[i].value, results[i].applied)]

\* C11: every step changes the history as the ledger rule says: a Mutate call
\* that returned a message appends one record (count = length of its name list
\* <= requested count, original id of the input, mutated id of the result), a
\* MutateBatch that returned appends one such record per input message in list
\* order, ClearHistory empties the history, and every other step -- a call that
\* failed, Register, Unregister, SetSeed, CreateChain, a chain application --
\* leaves the history as it was.
C11_HistoryLedger ==
    [][IF pc' = "returned" /\ pc = "idle" /\ call'.op = "mutate" /\ ret'.kind = "return"
       THEN /\ history' = Append(history, LedgerRecord(before', msgs', ret'.value,
                                                       ret'.applied))
            /\ Len(ret'.applied) <= call'.num
       ELSE IF pc' = "returned" /\ call'.op = "mutate_batch" /\ ret'.kind = "return"
       THEN /\ history' = history \o BatchLedger(before', outs')
            /\ Len(outs') = Len(before')
            /\ \A i \in 1..Len(outs') : Len(outs'[i].applied) <= call'.num
       ELSE IF pc' = "returned" /\ call'.op = "clear_history"
       THEN history' = <<>>
       ELSE history' = history]_vars

\* what the caller reads from the list it holds
ViewValue(v) == [i \in 1..Len(v.items) |-> v.items[i].val]

\* a step of the caller on the list get_history returned
ViewEditStep == pc = "idle" /\ pc' = "idle" /\ view.taken /\ view'.taken /\ view' # view

\* C12: the list get_history returned is a copy: nothing the caller does to it
\* (appending, removing, writing a field or the name list of one of its records)
\* changes the mutator's history, and a later mutate or clear_history does not
\* change what the caller reads from it.
C12_HistoryIsCopy ==
    [][/\ ViewEditStep => history' = history
       /\ (pc = "idle" /\ pc' = "returned" /\ call'.op \in {"mutate", "clear_history"}) =>
              ViewValue(view') = ViewValue(view)]_vars

\* the pair of mutate calls that followed a set_seed has returned
SeedReturned == MutateReturned /\ twin.ret.kind \notin {"none", "absent"}

HeapOf(v) == CHOOSE h \in InputHeaps : Value(h.msgs, h.recs, 1) = v

\* mutate(hs[1], num_mutations=c), mutate(hs[2], num_mutations=c), ... called one
\* after the other on the mutator self, up to the first call that raises: the
\* results of the calls, in order
RECURSIVE SeqCalls(_, _, _)
SeqAfter(r, hs, c) ==
    IF r.ret.kind = "raise" THEN <<r>> ELSE <<r>> \o SeqCalls(r.self, Tail(hs), c)
SeqCalls(self, hs, c) ==
    IF hs = <<>> THEN <<>> ELSE SeqAfter(DNSMutator_mutate(self, Head(hs), None, c), hs, c)

\* the mutator after the calls rs, having started as self
SeqEnd(self, rs) == IF rs = <<>> THEN self ELSE rs[Len(rs)].self

SeqRaised(rs) == rs # <<>> /\ rs[Len(rs)].ret.kind = "raise"

\* the state after the batch step agrees with the calls rs made one by one
BatchAgrees(self, rs) ==
    /\ strategies' = SeqEnd(self, rs).strategies
    /\ rng' = SeqEnd(self, rs).rng
    /\ history' = SeqEnd(self, rs).history
    /\ (ret'.kind = "raise") = SeqRaised(rs)
    /\ SeqRaised(rs) =>
          /\ ret'.exc = rs[Len(rs)].ret.exc
          /\ ret'.text = rs[Len(rs)].ret.text
    /\ ~SeqRaised(rs) =>
          /\ Len(outs') = Len(before')
          /\ Len(rs) = Len(before')
          /\ \A i \in 1..Len(rs) :
                /\ Value(outs'[i].msgs, outs'[i].recs, outs'[i].value) =
                      Value(rs[i].msgs, rs[i].recs, rs[i].ret.value)
                /\ outs'[i].applied = rs[i].ret.applied

BatchStep == pc = "idle" /\ pc' = "returned" /\ call'.op = "mutate_batch"

\* C14: mutate_batch(queries, c) returns one result per query, the i-th being
\* the result for queries[i], and it returns the same results and leaves the
\* same generator state and history (or raises the same error) as
\* mutate(queries[0], c), mutate(queries[1], c), ... called in list order from
\* the state the batch started in.
C14_BatchIsSequential ==
    [][BatchStep =>
          BatchAgrees([strategies |-> strategies, rng |-> rng, history |-> history],
                      SeqCalls([strategies |-> strategies, rng |-> rng,
                                history |-> history],
                               [i \in 1..Len(before') |-> HeapOf(before'[i])],
                               call'.num))]_vars

\* a batch of two equal queries has returned two different messages, each with
\* a strategy applied: the second call drew from where the first one stopped
C14_Witness ==
    /\ pc = "returned" /\ call.op = "mutate_batch" /\ ret.kind = "return"
    /\ Len(outs) = 2
    /\ before[1] = before[2]
    /\ outs[1].applied # <<>> /\ outs[2].applied # <<>>
    /\ Value(outs[1].msgs, outs[1].recs, outs[1].value) #
          Value(outs[2].msgs, outs[2].recs, outs[2].value)
    /\ Len(history) = 2

\* the name is a key of self.strategies
Registered(strats, name) == \E k \in 1..Len(strats) : strats[k].name = name

ChainCreateStep == pc = "idle" /\ pc' = "returned" /\ call'.op = "create_strategy_chain"

After(r) == [msgs |-> r.msgs, recs |-> r.recs, rng |-> r.rng]

\* the strategies ss applied by hand, in order, to the message at address cur
\* of the heap m: each one whose can_mutate holds on the then-current message
\* is applied to it, the others are passed over
RECURSIVE ByHand(_, _, _)
HandOn(r, ss) == ByHand(ss, After(r), r.out)
ByHand(ss, m, cur) ==
    IF ss = <<>> THEN [m |-> m, cur |-> cur]
    ELSE IF can_mutate(Head(ss), m.msgs[cur]) THEN HandOn(mutate(Head(ss), m, cur), Tail(ss))
    ELSE ByHand(Tail(ss), m, cur)

\* s2.mutate(s1.mutate(q, rng), rng)
Then2(r1, s2) == mutate(s2, After(r1), r1.out)
OneThenOther(s1, s2, m, cur) == Then2(mutate(s1, m, cur), s2)

\* both strategies of a chain of two are applicable at the point they run
BothApply(s1, s2, m, cur, r1) ==
    /\ can_mutate(s1, m.msgs[cur])
    /\ can_mutate(s2, r1.msgs[r1.out])

\* the clone apply_chain starts from
ChainStart(h) == [msgs |-> clone(h.msgs, 1), recs |-> h.recs, rng |-> rng]

\* the result of the chain step is the message, heap and generator in `hand`
ChainGives(hand_m, hand_cur) ==
    /\ ret'.kind = "return"
    /\ Value(msgs', recs', ret'.value) = Value(hand_m.msgs, hand_m.recs, hand_cur)
    /\ rng' = hand_m.rng

ChainFolds(hand) == ChainGives(hand.m, hand.cur)

ChainIsPair(r) == ChainGives(After(r), r.out)

ChainApplyStep == pc = "returned" /\ call.op = "create_strategy_chain" /\ call'.op = "apply_chain"

\* C16: applying the chain made from [n1, ..., nk] to a message gives what
\* folding the strategies over a clone of the message in list order gives, from
\* the same generator state: a strategy is applied to the result of the previous
\* step when its can_mutate holds on that message and passed over, without
\* error, when it does not; for k = 2 with both applicable the result is n2
\* applied to the result of n1.
C16_ChainIsFold ==
    [][ChainApplyStep =>
          /\ ChainFolds(ByHand(chain.strategies, ChainStart(HeapOf(before')),
                               Len(HeapOf(before').msgs) + 1))
          /\ (/\ Len(chain.strategies) = 2
              /\ BothApply(chain.strategies[1], chain.strategies[2],
                           ChainStart(HeapOf(before')), Len(HeapOf(before').msgs) + 1,
                           mutate(chain.strategies[1], ChainStart(HeapOf(before')),
                                  Len(HeapOf(before').msgs) + 1))) =>
                ChainIsPair(OneThenOther(chain.strategies[1], chain.strategies[2],
                                         ChainStart(HeapOf(before')),
                                         Len(HeapOf(before').msgs) + 1))]_vars

\* a chain of two different strategies has been applied: the first was not
\* applicable to the query and was passed over, the second changed it
C16_Witness ==
    /\ pc = "returned" /\ call.op = "apply_chain"
    /\ ret.kind = "return"
    /\ Len(chain.strategies) = 2
    /\ chain.strategies[1].name # chain.strategies[2].name
    /\ ret.applied = <<chain.strategies[2].name>>
    /\ Value(msgs, recs, ret.value) # before

\* the strategies the registry holds under a name
Entry(strats, name) == {strats[k] : k \in {j \in 1..Len(strats) : strats[j].name = name}}

OtherEntriesKept(name) ==
    \A n \in StrategyNames \ {name} : Entry(strategies', n) = Entry(strategies, n)

CallStep(op) == pc = "idle" /\ pc' = "returned" /\ call'.op = op

\* C17: the registry is a map from name to one strategy.  register_strategy puts
\* the strategy under its name, in place of the one that was there;
\* unregister_strategy(n) returns true exactly when n had an entry, removes it,
\* and changes nothing when it returns false; get_strategy(n) returns the entry
\* of n, or None; no operation changes the entry of another name.
C17_RegistryIsMap ==
    [][/\ \A n \in StrategyNames : Cardinality(Entry(strategies', n)) <= 1
       /\ CallStep("register_strategy") =>
              /\ Entry(strategies', call'.name) =
                    {s \in [name : {call'.name}, weight : {call'.weight}, cls : Classes] :
                        NameOf(s.cls) = call'.name}
              /\ OtherEntriesKept(call'.name)
       /\ CallStep("unregister_strategy") =>
              /\ ret'.flag = (Entry(strategies, call'.name) # {})
              /\ Entry(strategies', call'.name) = {}
              /\ OtherEntriesKept(call'.name)
              /\ ~ret'.flag => strategies' = strategies
       /\ CallStep("get_strategy") =>
              /\ {outs'[k] : k \in 1..Len(outs')} = Entry(strategies, call'.name)
              /\ Len(outs') <= 1
              /\ strategies' = strategies
       /\ ~(CallStep("register_strategy") \/ CallStep("unregister_strategy")) =>
              strategies' = strategies]_vars

\* get_strategy has returned the strategy held under a name, registered with
\* weight 2, out of a registry of two names
C17_Witness ==
    /\ pc = "returned" /\ call.op = "get_strategy"
    /\ Len(strategies) = 2
    /\ outs = <<strategies[1]>>
    /\ outs[1].weight = 2

\* the place of a strategy name in the ascending order of the names
NameRank(name) ==
    CASE name = "logical_record" -> 1
      [] name = "query_as_response" -> 2
      [] name = "random_query_name" -> 3
      [] name = "random_record_type" -> 4
      [] name = "zero_query_id" -> 5

\* C18: list_strategies returns the registered strategies in ascending order of
\* their names, whatever the order they were registered in.
C18_ListSorted ==
    (pc = "returned" /\ call.op = "list_strategies") =>
        \A i, j \in 1..Len(outs) : i < j => NameRank(outs[i].name) < NameRank(outs[j].name)

\* name and weight of the entries of a list of strategies or descriptors
NamedWeights(l) == {[name |-> l[k].name, weight |-> l[k].weight] : k \in 1..Len(l)}

\* C19: the mutator built at startup holds exactly the strategies the
\* configuration lists as enabled, each with its configured weight, and no
\* strategy that is disabled in or absent from the configuration is applied to
\* a message during the run.
C19_RegistryFromConfig ==
    config.started =>
        /\ NamedWeights(strategies) = NamedWeights(get_enabled_strategies(config.strategies))
        /\ MutateReturned =>
              \A i \in 1..Len(ret.applied) :
                  \E k \in 1..Len(config.strategies) :
                      /\ config.strategies[k].enabled
                      /\ config.strategies[k].name = ret.applied[i]

\* can_mutate of the class has returned for the message at address 1
Asked(cls) == pc = "returned" /\ call.op = "can_mutate" /\ call.name = cls

\* C20: RandomQueryNameStrategy.can_mutate is false on a response,
\* RandomResponseCodeStrategy.can_mutate is false on a message that is not a
\* response, and ResponseAsQueryStrategy.can_mutate is false on a message that
\* is not a response and has no answer, authority or additional record, and
\* true on a response and on a message with a record in any section (true and
\* false being the truth of the value returned).
C20_ApplicabilityGating ==
    /\ (Asked("RandomQueryNameStrategy") /\ msgs[1].is_response) => ~Truth(outs[1])
    /\ (Asked("RandomResponseCodeStrategy") /\ ~msgs[1].is_response) => ~Truth(outs[1])
    /\ Asked("ResponseAsQueryStrategy") =>
          Truth(outs[1]) = (\/ msgs[1].is_response
                             \/ Len(msgs[1].answers) > 0
                             \/ Len(msgs[1].authorities) > 0
                             \/ Len(msgs[1].additional) > 0)

\* ResponseAsQueryStrategy.can_mutate has returned a true value for a message
\* that is not a response and holds additional records only
C20_Witness ==
    /\ Asked("ResponseAsQueryStrategy")
    /\ ~msgs[1].is_response
    /\ msgs[1].answers = <<>> /\ msgs[1].authorities = <<>>
    /\ Len(msgs[1].additional) = 2
    /\ Truth(outs[1])

\* the message mutate returned, as the caller reads it
Output == Value(msgs, recs, ret.value)

\* C21: with RandomQueryIdStrategy alone in the registry, mutate(msg) on a
\* message whose id is in 0..65535 returns a message with the input's name, type
\* and class and an id in 0..65535, and appends one history record naming
\* random_query_id with count 1 -- for every state of the generator; and
\* mutate_numeric_field stays within 0..65535 for every mutation type and every
\* value the generator may return.
C21_QueryIdInRange ==
    [][/\ (CallStep("mutate") /\ Names(strategies) = <<"random_query_id">>) =>
              /\ ret'.kind = "return"
              /\ Output'.qname = before'.qname
              /\ Output'.qtype = before'.qtype
              /\ Output'.qclass = before'.qclass
              /\ Output'.query_id \in 0..65535
              /\ history' = Append(history,
                                   [original_id |-> before'.query_id,
                                    mutated_id |-> Output'.query_id,
                                    strategies |-> <<"random_query_id">>,
                                    num_mutations |-> 1])
       /\ CallStep("mutate_numeric_field") => outs'[1] \in 0..65535]_vars

\* mutate has returned a message with a changed id for an input whose id is
\* 65535, random_query_id being the one strategy registered and applied
C21_Witness ==
    /\ MutateReturned
    /\ Names(strategies) = <<"random_query_id">>
    /\ ret.kind = "return"
    /\ ret.applied = <<"random_query_id">>
    /\ before.query_id = 65535
    /\ Output.query_id # 65535

\* strategy.mutate of the class is returning in this step
StrategyStep(cls) == pc = "idle" /\ pc' = "returned" /\ call'.op = "strategy_mutate" /\ call'.name = cls

\* C22: TruncatedFlagStrategy.mutate returns a message with truncated set and
\* the question of its input; when the context drawn is response_truncated the
\* result is a response and has at least one answer record more than the input,
\* whatever the input's response flag and sections.
C22_TruncatedFlag ==
    [][StrategyStep("TruncatedFlagStrategy") =>
          /\ Output'.truncated
          /\ Output'.qname = before'.qname
          /\ Output'.qtype = before'.qtype
          /\ Output'.qclass = before'.qclass
          /\ Choice(NextRng(rng), DEFAULT_TRUNCATED_CONTEXT) = "response_truncated" =>
                /\ Output'.is_response
                /\ Len(Output'.answers) >= Len(before'.answers) + 1]_vars

\* TruncatedFlagStrategy.mutate has returned a response with more answers than
\* its input, a message that was not a response and held two answers
C22_Witness ==
    /\ pc = "returned" /\ call.op = "strategy_mutate" /\ call.name = "TruncatedFlagStrategy"
    /\ ~before.is_response
    /\ Len(before.answers) = 2
    /\ Output.is_response
    /\ Output.truncated
    /\ Len(Output.answers) > 2

\* the sequence a is the beginning of the sequence b
IsPrefix(a, b) == Len(a) <= Len(b) /\ SubSeq(b, 1, Len(a)) = a

\* C23: QueryAsResponseStrategy.mutate returns a response with the question of
\* its input, and the answers of the input are all still there, in order, at
\* the head of the result's answers, followed by the generated records if any.
C23_AnswersOnlyAppended ==
    [][StrategyStep("QueryAsResponseStrategy") =>
          /\ Output'.is_response
          /\ Output'.qname = before'.qname
          /\ Output'.qtype = before'.qtype
          /\ Output'.qclass = before'.qclass
          /\ IsPrefix(before'.answers, Output'.answers)]_vars

Running == pc \in {"round", "qar_while", "long_while"}

Extended(a, b, lo, hi) ==
    IsPrefix(a, b) /\ Len(b) - Len(a) >= lo /\ Len(b) - Len(a) <= hi

\* C25: RecordCompressionStrategy.mutate and WildcardRecordStrategy.mutate each
\* return a message whose answers are the answers of the input followed by
\* three to six new records, with authorities and additional as in the input.
C25_ThreeToSixAppended ==
    [][StrategyStep("RecordCompressionStrategy") \/ StrategyStep("WildcardRecordStrategy") =>
          /\ Extended(before'.answers, Output'.answers, 3, 6)
          /\ Output'.authorities = before'.authorities
          /\ Output'.additional = before'.additional]_vars

\* the scenario has been generated and its list is in outs
Generated(scenario_type) ==
    pc = "returned" /\ call.op = "generate_logical_records" /\ call.name = scenario_type

\* the places of the records of a type in the list
OfType(records, type) == {i \in 1..Len(records) : records[i].type = type}

\* C26: whatever the generator returns, NS_WITH_GLUE gives two to four NS
\* records, all owned by the zone; each NS record has an A record in the list
\* named by its rdata; and each AAAA record is named by the rdata of an NS
\* record.
C26_NsWithGlue ==
    Generated("ns_with_glue") =>
        /\ Cardinality(OfType(outs, "NS")) \in 2..4
        /\ \A i \in OfType(outs, "NS") :
              /\ outs[i].name = call.draws.names[1]
              /\ \E j \in OfType(outs, "A") : outs[j].name = outs[i].rdata
        /\ \A j \in OfType(outs, "AAAA") :
              \E i \in OfType(outs, "NS") : outs[j].name = outs[i].rdata

\* four name servers were generated, the first with an AAAA glue record and
\* the last without
C26_Witness ==
    /\ Generated("ns_with_glue")
    /\ Cardinality(OfType(outs, "NS")) = 4
    /\ Cardinality(OfType(outs, "AAAA")) = 2
    /\ call.draws.aaaa[1] /\ ~call.draws.aaaa[4]

\* the name reached from name by following k targets ("" when a name met on
\* the way owns no record)
RECURSIVE Walk(_, _, _)
Walk(records, name, k) ==
    IF k = 0 THEN name
    ELSE IF \E i \in 1..Len(records) : records[i].name = name
    THEN Walk(records, records[CHOOSE i \in 1..Len(records) : records[i].name = name].rdata,
              k - 1)
    ELSE ""

\* C27: for each chain length from 2 to 5, CNAME_CHAIN gives CNAME records each
\* pointing at the owner of the next record and ends with the one A record,
\* owned by the last target, no name being met twice on the way; CNAME_LOOP gives
\* CNAME records only and following the targets from the first name leads back
\* to the first name.
C27_CnameChain ==
    /\ Generated("cname_chain") =>
          /\ Len(outs) = call.draws.chain_length
          /\ \A i \in 1..(Len(outs) - 1) :
                outs[i].type = "CNAME" /\ outs[i].rdata = outs[i + 1].name
          /\ OfType(outs, "A") = {Len(outs)}
          /\ \A i, j \in 1..Len(outs) : outs[i].name = outs[j].name => i = j
          /\ Walk(outs, outs[1].name, Len(outs) - 1) = outs[Len(outs)].name
    /\ Generated("cname_loop") =>
          /\ Len(outs) = call.draws.chain_length - 1
          /\ OfType(outs, "CNAME") = 1..Len(outs)
          /\ OfType(outs, "A") = {}
          /\ Walk(outs, outs[1].name, Len(outs)) = outs[1].name

\* a loop of length 5 was generated, every domain drawn being the same
C27_Witness ==
    /\ Generated("cname_loop")
    /\ call.draws.chain_length = 5
    /\ Len(outs) = 4
    /\ \A i \in 1..5 : call.draws.names[i] = "a.com."
    /\ outs[4].rdata = outs[1].name

\* C28: LogicalRecordStrategy.mutate returns a message whose additional section
\* is that of the input followed by the records generated for the scenario, at
\* least one, so the result has more additional records than the input.
C28_AdditionalGrows ==
    [][StrategyStep("LogicalRecordStrategy") =>
          /\ IsPrefix(before'.additional, Output'.additional)
          /\ Len(Output'.additional) > Len(before'.additional)]_vars

\* the registry's entries for the names, in the order of the names
Resolved(strats, names) == [i \in 1..Len(names) |-> strats[get(strats, names[i])]]

\* C29: a chain holds the strategy objects found when it was created, in the
\* order of the names; no later call on the mutator -- unregistering one of the
\* names, registering another strategy under one of them, re-seeding -- changes
\* what it holds; applying it never raises and gives what these strategies give
\* by hand on a clone of the message with the generator the mutator has at
\* that moment.
C29_ChainKeepsStrategies ==
    [][/\ (CallStep("create_strategy_chain") /\ ret'.kind = "return") =>
              chain'.strategies = Resolved(strategies, call'.names)
       /\ ~CallStep("create_strategy_chain") => chain' = chain
       /\ CallStep("apply_chain") =>
              ChainFolds(ByHand(chain.strategies, ChainStart(HeapOf(before')),
                                Len(HeapOf(before').msgs) + 1))]_vars

\* a chain of two strategies has been applied and changed the message after
\* the first of them was unregistered and the second registered anew with
\* another weight
C29_Witness ==
    /\ pc = "returned" /\ call.op = "apply_chain"
    /\ ret.kind = "return"
    /\ Len(chain.strategies) = 2
    /\ ~Registered(strategies, chain.strategies[1].name)
    /\ Registered(strategies, chain.strategies[2].name)
    /\ Entry(strategies, chain.strategies[2].name) # {chain.strategies[2]}
    /\ ret.applied = Names(chain.strategies)
    /\ Value(msgs, recs, ret.value) # before

\* the last n elements of a sequence, all of them if it has fewer
LastOf(seq, n) == SubSeq(seq, Max(1, Len(seq) - n + 1), Len(seq))

\* C30: with any number of handler threads in persist_result at once, every
\* summary is computed over a window of at most window_size results, and these
\* are the results added last, in the order they were added.
C30_RollingWindow ==
    analyze.up =>
        \A t \in Threads :
            analyze.threads[t].summed =>
                /\ analyze.window_size >= 1
                /\ Len(analyze.threads[t].seen) <= analyze.window_size
                /\ analyze.threads[t].seen =
                       LastOf(SubSeq(analyze.log, 1, analyze.threads[t].at),
                              analyze.window_size)

====
